---- MODULE Spec2Model ----
(***************************************************************************)
(* Conversation memory: the chunking pipeline (migrate_to_weaviate.py,     *)
(* embedding_manager.py), the Weaviate graph store (graph_store.py) and    *)
(* the sync path into the ChromaDB index (sync_from_q.py).                 *)
(*                                                                         *)
(* Texts are strings.  Cosine distances and similarities are integers in   *)
(* hundredths (distance 0..200, similarity = 100 - distance).              *)
(***************************************************************************)
EXTENDS Integers, Sequences, FiniteSets, Bags, TLC

VARIABLES
    Conversation,    \* Weaviate collection "Conversation", in storage order
    MessageChunk,    \* Weaviate collection "MessageChunk", in storage order
    AssistantChunk,  \* Weaviate collection "AssistantChunk", in storage order
    Decision,        \* Weaviate collection "Decision", in storage order
    proc,            \* per process: the add_conversation call in flight
    calls,           \* the latest completed add_conversation call, or Absent
    interrupted,     \* conv id -> the phase in which its add_conversation last died, or "no"
    reply,           \* the value returned by the latest query or pure function
    files,           \* record store: conv id -> the JSON document, or Absent
    index,           \* record store: the in-memory summary index
    collection,      \* ChromaDB collection "conversations"
    indexed,         \* the latest index_conversation call and how it ended
    today,           \* the calendar day datetime.now() falls on
    mem,             \* per process: the ConversationStore's self.index
    issued,          \* the (messages, id) pairs add_conversation has returned
    writer,          \* the process whose _save_index wrote index.json last, or None
    overlapped       \* an add_conversation call has begun while another was running

graphVars == <<Conversation, MessageChunk, AssistantChunk, Decision>>
callVars == <<proc, calls, interrupted>>
storeVars == <<files, index>>
chromaVars == <<collection, indexed>>
sessionVars == <<today, mem, issued, writer, overlapped>>
vars == <<Conversation, MessageChunk, AssistantChunk, Decision, proc, calls,
          interrupted, reply, files, index, collection, indexed,
          today, mem, issued, writer, overlapped>>

\* Python's None where a string is expected, and where a record is expected.
None == "None"
Absent == [absent |-> TRUE]

(***************************************************************************)
(* Bounds and program constants                                            *)
(***************************************************************************)
MinAssistantLen == 50
MaxMsgs == 4
MaxDecisionEntries == 2

Min(a, b) == IF a < b THEN a ELSE b

RECURSIVE Rep(_, _)
Rep(c, n) == IF n = 0 THEN "" ELSE c \o Rep(c, n - 1)

\* All sequences over S of length 0..n.
SeqUpTo(S, n) == UNION {[1..k -> S] : k \in 0..n}

\* Python's s[:n]
Prefix(s, n) == SubSeq(s, 1, Min(n, Len(s)))

(***************************************************************************)
(* Chunking pipeline                                                       *)
(***************************************************************************)
\* f"User: {user_msg}\n\nAssistant: {asst_msg}"
ChunkText(user_msg, asst_msg) ==
    "User: " \o user_msg \o "\n\nAssistant: " \o asst_msg

\* x or ""
OrEmpty(x) == IF x = None THEN "" ELSE x

ChunkIndexOfI(i) == i
\* "chunk_index": i // 2
ChunkIndexOf(i) == i \div 2

EmitsAssistantChunkGe(asst_msg) == Len(asst_msg) >= MinAssistantLen
\* if len(asst_msg) > 50
EmitsAssistantChunk(asst_msg) == Len(asst_msg) > MinAssistantLen

FullChunk(conversation, i) ==
    LET messages == conversation.messages IN
    [text |-> ChunkText(messages[i + 1].content, messages[i + 2].content),
     metadata |->
        [conversation_id |-> conversation.id,
         conversation_title |-> OrEmpty(conversation.title),
         project |-> OrEmpty(conversation.metadata.project),
         timestamp |-> OrEmpty(messages[i + 1].timestamp),
         chunk_index |-> ChunkIndexOf(i)]]

AssistantOnlyChunk(conversation, i) ==
    LET messages == conversation.messages IN
    [text |-> messages[i + 2].content,
     metadata |->
        [conversation_id |-> conversation.id,
         conversation_title |-> OrEmpty(conversation.title),
         project |-> OrEmpty(conversation.metadata.project),
         chunk_index |-> ChunkIndexOf(i)]]

\* The loop "for i in range(0, len(messages), 2)"; i is Python's 0-based index,
\* so messages[i] of the code is messages[i + 1] here.
RECURSIVE ChunkLoop(_, _, _, _)
ChunkLoop(conversation, i, full_chunks, assistant_chunks) ==
    LET messages == conversation.messages IN
    IF i >= Len(messages) THEN
        [full |-> full_chunks, assistant |-> assistant_chunks]
    ELSE IF i + 1 < Len(messages) THEN
        ChunkLoop(conversation, i + 2,
                  Append(full_chunks, FullChunk(conversation, i)),
                  IF EmitsAssistantChunk(messages[i + 2].content)
                  THEN Append(assistant_chunks, AssistantOnlyChunk(conversation, i))
                  ELSE assistant_chunks)
    ELSE ChunkLoop(conversation, i + 2, full_chunks, assistant_chunks)

chunk_conversation(conversation) == ChunkLoop(conversation, 0, <<>>, <<>>)

\* EmbeddingManager._chunk_conversation: full chunks only, with the topics
\* joined into the metadata.
RECURSIVE JoinTopics(_)
JoinTopics(topics) ==
    IF topics = <<>> THEN ""
    ELSE IF Len(topics) = 1 THEN topics[1]
    ELSE topics[1] \o "," \o JoinTopics(Tail(topics))

EMChunk(conversation, i) ==
    LET messages == conversation.messages IN
    [text |-> ChunkText(messages[i + 1].content, messages[i + 2].content),
     metadata |->
        [conversation_id |-> conversation.id,
         conversation_title |-> OrEmpty(conversation.title),
         project |-> OrEmpty(conversation.metadata.project),
         topics |-> JoinTopics(conversation.metadata.topics),
         timestamp |-> OrEmpty(messages[i + 1].timestamp),
         chunk_index |-> ChunkIndexOf(i)]]

RECURSIVE EMChunkLoop(_, _, _)
EMChunkLoop(conversation, i, chunks) ==
    LET messages == conversation.messages IN
    IF i >= Len(messages) THEN chunks
    ELSE IF i + 1 < Len(messages) THEN
        EMChunkLoop(conversation, i + 2, Append(chunks, EMChunk(conversation, i)))
    ELSE EMChunkLoop(conversation, i + 2, chunks)

_chunk_conversation(conversation) == EMChunkLoop(conversation, 0, <<>>)

(***************************************************************************)
(* Inputs of the chunking specification                                    *)
(***************************************************************************)
Roles == {"user", "assistant"}
ChunkContents ==
    {"", "q", Rep("b", MinAssistantLen), Rep("c", MinAssistantLen + 1)}
ChunkMessages ==
    [role : Roles, content : ChunkContents, timestamp : {"2024-01-01T10:00:00"}]

Metadata(project, topics, decisions) ==
    [project |-> project, topics |-> topics, decisions |-> decisions,
     tags |-> <<>>, source |-> ""]

ChunkInputs ==
    {[id |-> "c1", date |-> "2024-01-01T10:00:00", title |-> "t1",
      messages |-> m, metadata |-> Metadata("P", <<"a", "b">>, <<>>)] :
        m \in SeqUpTo(ChunkMessages, MaxMsgs)}

(***************************************************************************)
(* Initial state                                                           *)
(***************************************************************************)
Procs == {"p1", "p2"}
\* A process that has not constructed its ConversationStore yet.
NotLoaded == [loaded |-> FALSE, conversations |-> <<>>]
ConvIds == {"c1", "c2", "c3"}

Idle == [pc |-> "idle"]

Init ==
    /\ Conversation = <<>>
    /\ MessageChunk = <<>>
    /\ AssistantChunk = <<>>
    /\ Decision = <<>>
    /\ proc = [p \in Procs |-> Idle]
    /\ calls = Absent
    /\ interrupted = [c \in ConvIds |-> "no"]
    /\ reply = Absent
    /\ files = [c \in ConvIds |-> Absent]
    /\ index = <<>>
    /\ collection = <<>>
    /\ indexed = Absent
    /\ today = 1
    /\ mem = [p \in Procs |-> NotLoaded]
    /\ issued = {}
    /\ writer = None
    /\ overlapped = FALSE

(***************************************************************************)
(* Graph store (Weaviate): collections and add_conversation                *)
(*                                                                         *)
(* A graph state g is the record of the four collections; each collection  *)
(* is the sequence of its objects in storage order.  A call is the record  *)
(* of add_conversation's arguments.                                        *)
(***************************************************************************)
G == [Conversation |-> Conversation, MessageChunk |-> MessageChunk,
      AssistantChunk |-> AssistantChunk, Decision |-> Decision]

\* fetch_objects(filters=Filter.by_property("conv_id").equal(conv_id))
FetchWhere(coll, conv_id) == SelectSeq(coll, LAMBDA e : e.conv_id = conv_id)

DeleteNothing(coll, conv_id) == coll
\* data.delete_many(where=Filter.by_property("conv_id").equal(conv_id))
DeleteMany(coll, conv_id) == SelectSeq(coll, LAMBDA e : e.conv_id # conv_id)

\* zip(a, b) stops at the shorter list
ZipLen(a, b) == Min(Len(a), Len(b))

NeverExists(g, conv_id) == FALSE
\* "if existing.objects"
Exists(g, conv_id) == FetchWhere(g.Conversation, conv_id) # <<>>

KeepChunks(g, conv_id) == g
DeleteChunks(g, conv_id) ==
    [g EXCEPT !.MessageChunk = DeleteMany(@, conv_id)]

DeleteAssistantSkipped(g, conv_id) == g
DeleteAssistant(g, conv_id) ==
    [g EXCEPT !.AssistantChunk = DeleteMany(@, conv_id)]

DeleteConv(g, conv_id) ==
    [g EXCEPT !.Conversation = DeleteMany(@, conv_id)]

ConversationEntry(conv) ==
    [conv_id |-> conv.id,
     title |-> conv.title,
     date |-> conv.date,
     project |-> conv.metadata.project,
     source |-> conv.metadata.source,
     summary |-> "",
     topics |-> conv.metadata.topics,
     tags |-> conv.metadata.tags]

InsertConv(g, conv) ==
    [g EXCEPT !.Conversation = Append(@, ConversationEntry(conv))]

\* i is enumerate's 0-based index
MessageChunkEntry(conv, i, chunk, embedding) ==
    [conv_id |-> conv.id,
     chunk_index |-> i,
     content |-> chunk.text,
     timestamp |-> chunk.metadata.timestamp,
     project |-> chunk.metadata.project,
     title |-> chunk.metadata.conversation_title,
     vector |-> embedding]

InsertChunk(g, call, i) ==
    [g EXCEPT !.MessageChunk =
        Append(@, MessageChunkEntry(call.conv, i, call.chunks[i + 1],
                                    call.embeddings[i + 1]))]

RECURSIVE InsertChunksFrom(_, _, _)
InsertChunksFrom(g, call, i) ==
    IF i >= ZipLen(call.chunks, call.embeddings) THEN g
    ELSE InsertChunksFrom(InsertChunk(g, call, i), call, i + 1)

AssistantChunkEntry(conv, i, chunk, embedding) ==
    [conv_id |-> conv.id,
     chunk_index |-> i,
     content |-> chunk.text,
     project |-> chunk.metadata.project,
     title |-> chunk.metadata.conversation_title,
     vector |-> embedding]

InsertAssistantChunk(g, call, i) ==
    [g EXCEPT !.AssistantChunk =
        Append(@, AssistantChunkEntry(call.conv, i, call.assistant_chunks[i + 1],
                                      call.assistant_embeddings[i + 1]))]

\* "if assistant_chunks and assistant_embeddings"
HasAssistant(call) ==
    call.assistant_chunks # <<>> /\ call.assistant_embeddings # <<>>

RECURSIVE InsertAssistantChunksFrom(_, _, _)
InsertAssistantChunksFrom(g, call, i) ==
    IF ~HasAssistant(call)
       \/ i >= ZipLen(call.assistant_chunks, call.assistant_embeddings) THEN g
    ELSE InsertAssistantChunksFrom(InsertAssistantChunk(g, call, i), call, i + 1)

DecisionEntry(conv, dec) ==
    [conv_id |-> conv.id,
     decision |-> dec.decision,
     rationale |-> dec.rationale,
     timestamp |-> dec.timestamp,
     project |-> conv.metadata.project]

InsertDecision(g, conv, k) ==
    [g EXCEPT !.Decision = Append(@, DecisionEntry(conv, conv.metadata.decisions[k]))]

RECURSIVE InsertDecisionsFrom(_, _, _)
InsertDecisionsFrom(g, conv, k) ==
    IF k > Len(conv.metadata.decisions) THEN g
    ELSE InsertDecisionsFrom(InsertDecision(g, conv, k), conv, k + 1)

\* The "if existing.objects" block: chunks, assistant chunks, then the
\* Conversation object.
DeleteExisting(g, conv_id) ==
    DeleteConv(DeleteAssistant(DeleteChunks(g, conv_id), conv_id), conv_id)

\* GraphStore.add_conversation run to completion on the graph state g.
add_conversation(g, call) ==
    LET cleared == IF Exists(g, call.conv.id)
                   THEN DeleteExisting(g, call.conv.id) ELSE g
        withConv == InsertConv(cleared, call.conv)
        withChunks == InsertChunksFrom(withConv, call, 0)
        withAssistant == InsertAssistantChunksFrom(withChunks, call, 0)
    IN InsertDecisionsFrom(withAssistant, call.conv, 1)

EmptyGraph == [Conversation |-> <<>>, MessageChunk |-> <<>>,
               AssistantChunk |-> <<>>, Decision |-> <<>>]

SetGraph(g) ==
    /\ Conversation' = g.Conversation
    /\ MessageChunk' = g.MessageChunk
    /\ AssistantChunk' = g.AssistantChunk
    /\ Decision' = g.Decision

(***************************************************************************)
(* Callers of add_conversation: the body of migrate()'s loop               *)
(***************************************************************************)
\* model.encode(texts).tolist(): one vector per text.  The embedder is
\* opaque; every assignment of vectors to the texts is tried.
Encodings(texts, Vectors) == [1..Len(texts) -> Vectors]

\* The calls migrate() makes for the conversations convs: none for a
\* conversation without a full chunk ("if not full_chunks: continue").
MigrateCalls(convs, Vectors) ==
    UNION {
        LET out == chunk_conversation(conv) IN
        IF out.full = <<>> THEN {}
        ELSE {[conv |-> conv,
               chunks |-> out.full,
               embeddings |-> e,
               assistant_chunks |-> out.assistant,
               assistant_embeddings |-> ae] :
                 e \in Encodings(out.full, Vectors),
                 ae \in Encodings(out.assistant, Vectors)}
        : conv \in convs}

\* What the history variable keeps of a completed call: the call, whether it
\* repeated the call before it, where the previous call for its conversation
\* died (or "no"), and what its conversation had in the chunk collections
\* when the call began.
ChunkKey(e) == <<e.conv_id, e.chunk_index, e.content>>
Keys(coll) == [k \in DOMAIN coll |-> ChunkKey(coll[k])]
PassedKeys(conv, chunks) ==
    [k \in DOMAIN chunks |-> <<conv.id, k - 1, chunks[k].text>>]

CallRecord(g, call) ==
    [last |-> call,
     repeated |-> calls # Absent /\ calls.last = call,
     recovers |-> interrupted[call.conv.id],
     indexed_before |-> Exists(g, call.conv.id),
     chunks_before |-> Len(FetchWhere(g.MessageChunk, call.conv.id)),
     changed |->
        \/ Keys(FetchWhere(g.MessageChunk, call.conv.id))
              # PassedKeys(call.conv, call.chunks)
        \/ Keys(FetchWhere(g.AssistantChunk, call.conv.id))
              # PassedKeys(call.conv, call.assistant_chunks)]

\* One whole add_conversation call.  The Decision collection only grows, so
\* the calls stop adding decisions at MaxDecisionEntries.  A query ends the
\* behaviour (it changes nothing in the store, so the behaviours that go on
\* writing are those that did not query).
AddConversation(call) ==
    /\ \A p \in Procs : proc[p].pc = "idle"
    /\ reply = Absent
    /\ Len(Decision) + Len(call.conv.metadata.decisions) <= MaxDecisionEntries
    /\ SetGraph(add_conversation(G, call))
    /\ calls' = CallRecord(G, call)
    /\ UNCHANGED <<proc, interrupted, reply, storeVars, chromaVars,
                 sessionVars>>

(***************************************************************************)
(* Spec: re-indexing.  Conversations c1 and c2 with one or two turn pairs, *)
(* short and long assistant messages, with and without a decision.         *)
(***************************************************************************)
Decision1 == [decision |-> "use 1-indexed coordinates",
              rationale |-> "matches intuition",
              timestamp |-> "2024-01-01T10:00:00"]

ReindexVectors == {0}
ReindexContents == {"ok", Rep("c", MinAssistantLen + 1)}
UserMessage(content) ==
    [role |-> "user", content |-> content, timestamp |-> "2024-01-01T10:00:00"]
AssistantMessage(content) ==
    [role |-> "assistant", content |-> content, timestamp |-> "2024-01-01T10:00:00"]

ReindexMessages ==
    {<<UserMessage("q"), AssistantMessage(a)>> : a \in ReindexContents}
    \cup {<<UserMessage("q"), AssistantMessage(a), UserMessage("r"), AssistantMessage(b)>> :
            a \in ReindexContents, b \in ReindexContents}

ReindexConvs ==
    {[id |-> id, date |-> "2024-01-01T10:00:00", title |-> "t1",
      messages |-> m, metadata |-> Metadata("P", <<"a">>, d)] :
        id \in {"c1", "c2"}, m \in ReindexMessages, d \in {<<>>, <<Decision1>>}}

ReindexCalls == MigrateCalls(ReindexConvs, ReindexVectors)

Next == \E call \in ReindexCalls : AddConversation(call)
Spec == Init /\ [][Next]_vars

(***************************************************************************)
(* SpecChunk: the chunkers applied to every bounded conversation           *)
(***************************************************************************)
\* One application per behaviour: the functions are pure, a second
\* application adds nothing.
ChunkConversation ==
    /\ reply = Absent
    /\ \E conversation \in ChunkInputs :
        LET out == chunk_conversation(conversation) IN
        reply' = [op |-> "chunk_conversation",
                  conversation |-> conversation,
                  full |-> out.full,
                  assistant |-> out.assistant,
                  chunks |-> _chunk_conversation(conversation)]
    /\ UNCHANGED <<graphVars, callVars, storeVars, chromaVars,
                 sessionVars>>

NextChunk == ChunkConversation
SpecChunk == Init /\ [][NextChunk]_vars

(***************************************************************************)
(* SpecCrash: add_conversation one Weaviate request at a time, by a        *)
(* process that may die between any two requests.                          *)
(*                                                                         *)
(* proc[p].pc names the request the process issues next; i is the loop     *)
(* index of the insert loops (0-based, as enumerate's).                    *)
(***************************************************************************)
PcAfterConvFirst(pc, existing) ==
    CASE pc = "check" -> IF existing THEN "delete_conv" ELSE "insert_conv"
      [] pc = "delete_conv" -> "delete_chunks"
      [] pc = "delete_chunks" -> "delete_assistant"
      [] pc = "delete_assistant" -> "insert_conv"
      [] pc = "insert_conv" -> "insert_chunks"
      [] pc = "insert_chunks" -> "insert_assistant"
      [] pc = "insert_assistant" -> "insert_decisions"
      [] pc = "insert_decisions" -> "done"

\* The order of the requests in add_conversation's body.
PcAfter(pc, existing) ==
    CASE pc = "check" -> IF existing THEN "delete_chunks" ELSE "insert_conv"
      [] pc = "delete_chunks" -> "delete_assistant"
      [] pc = "delete_assistant" -> "delete_conv"
      [] pc = "delete_conv" -> "insert_conv"
      [] pc = "insert_conv" -> "insert_chunks"
      [] pc = "insert_chunks" -> "insert_assistant"
      [] pc = "insert_assistant" -> "insert_decisions"
      [] pc = "insert_decisions" -> "done"

\* Where a call that dies at pc leaves off: before its Conversation object is
\* inserted, or among the inserts.
PhaseOf(pc) ==
    IF pc \in {"insert_chunks", "insert_assistant", "insert_decisions"}
    THEN "inserting" ELSE "deleting"

At(p, pc) == proc[p].pc = pc
Goto(p, pc) == proc' = [proc EXCEPT ![p].pc = pc, ![p].i = 0]

\* The call begins: the arguments are bound.
Begin(p, call) ==
    /\ At(p, "idle")
    /\ Len(Decision) + Len(call.conv.metadata.decisions) <= MaxDecisionEntries
    /\ proc' = [proc EXCEPT ![p] =
                  [pc |-> "check", call |-> call, i |-> 0,
                   record |-> [last |-> call,
                               recovers |-> interrupted[call.conv.id]]]]
    /\ overlapped' = (overlapped \/ \E q \in Procs \ {p} : ~At(q, "idle"))
    /\ UNCHANGED <<graphVars, calls, interrupted, reply, storeVars, chromaVars,
                 today, mem, issued, writer>>

\* existing = conv_collection.query.fetch_objects(...); if existing.objects
CheckExisting(p) ==
    /\ At(p, "check")
    /\ Goto(p, PcAfter("check", Exists(G, proc[p].call.conv.id)))
    /\ UNCHANGED <<graphVars, calls, interrupted, reply, storeVars, chromaVars,
                 sessionVars>>

DeleteChunksStep(p) ==
    /\ At(p, "delete_chunks")
    /\ SetGraph(DeleteChunks(G, proc[p].call.conv.id))
    /\ Goto(p, PcAfter("delete_chunks", TRUE))
    /\ UNCHANGED <<calls, interrupted, reply, storeVars, chromaVars,
                 sessionVars>>

DeleteAssistantStep(p) ==
    /\ At(p, "delete_assistant")
    /\ SetGraph(DeleteAssistant(G, proc[p].call.conv.id))
    /\ Goto(p, PcAfter("delete_assistant", TRUE))
    /\ UNCHANGED <<calls, interrupted, reply, storeVars, chromaVars,
                 sessionVars>>

DeleteConvStep(p) ==
    /\ At(p, "delete_conv")
    /\ SetGraph(DeleteConv(G, proc[p].call.conv.id))
    /\ Goto(p, PcAfter("delete_conv", TRUE))
    /\ UNCHANGED <<calls, interrupted, reply, storeVars, chromaVars,
                 sessionVars>>

InsertConvStep(p) ==
    /\ At(p, "insert_conv")
    /\ SetGraph(InsertConv(G, proc[p].call.conv))
    /\ Goto(p, PcAfter("insert_conv", TRUE))
    /\ UNCHANGED <<calls, interrupted, reply, storeVars, chromaVars,
                 sessionVars>>

\* One pass of "for i, (chunk, embedding) in enumerate(zip(chunks, embeddings))":
\* an insert, or the loop's end.
InsertChunkStep(p) ==
    /\ At(p, "insert_chunks")
    /\ LET call == proc[p].call
           i == proc[p].i IN
       IF i < ZipLen(call.chunks, call.embeddings)
       THEN /\ SetGraph(InsertChunk(G, call, i))
            /\ proc' = [proc EXCEPT ![p].i = i + 1]
       ELSE /\ Goto(p, PcAfter("insert_chunks", TRUE))
            /\ UNCHANGED graphVars
    /\ UNCHANGED <<calls, interrupted, reply, storeVars, chromaVars,
                 sessionVars>>

InsertAssistantStep(p) ==
    /\ At(p, "insert_assistant")
    /\ LET call == proc[p].call
           i == proc[p].i IN
       IF HasAssistant(call)
          /\ i < ZipLen(call.assistant_chunks, call.assistant_embeddings)
       THEN /\ SetGraph(InsertAssistantChunk(G, call, i))
            /\ proc' = [proc EXCEPT ![p].i = i + 1]
       ELSE /\ Goto(p, PcAfter("insert_assistant", TRUE))
            /\ UNCHANGED graphVars
    /\ UNCHANGED <<calls, interrupted, reply, storeVars, chromaVars,
                 sessionVars>>

\* "for dec in decisions": i is the number of decisions inserted so far.
InsertDecisionStep(p) ==
    /\ At(p, "insert_decisions")
    /\ LET conv == proc[p].call.conv
           i == proc[p].i IN
       IF i < Len(conv.metadata.decisions)
       THEN /\ SetGraph(InsertDecision(G, conv, i + 1))
            /\ proc' = [proc EXCEPT ![p].i = i + 1]
       ELSE /\ Goto(p, PcAfter("insert_decisions", TRUE))
            /\ UNCHANGED graphVars
    /\ UNCHANGED <<calls, interrupted, reply, storeVars, chromaVars,
                 sessionVars>>

\* add_conversation returns.
Return(p) ==
    /\ At(p, "done")
    /\ calls' = proc[p].record
    /\ interrupted' = [interrupted EXCEPT ![proc[p].call.conv.id] = "no"]
    /\ proc' = [proc EXCEPT ![p] = Idle]
    /\ UNCHANGED <<graphVars, reply, storeVars, chromaVars,
                 sessionVars>>

\* The process dies after the request it issued last; what it wrote stays.
Crash(p) ==
    /\ ~At(p, "idle")
    /\ ~At(p, "done")
    /\ interrupted' = [interrupted EXCEPT ![proc[p].call.conv.id] = PhaseOf(proc[p].pc)]
    /\ proc' = [proc EXCEPT ![p] = Idle]
    /\ UNCHANGED <<graphVars, calls, reply, storeVars, chromaVars,
                 sessionVars>>

CrashProcs == {"p1"}

CrashMessages ==
    {<<UserMessage("q"), AssistantMessage(Rep("c", MinAssistantLen + 1))>>,
     <<UserMessage("q"), AssistantMessage(Rep("c", MinAssistantLen + 1)),
       UserMessage("r"), AssistantMessage("ok")>>,
     <<UserMessage("q"), AssistantMessage(Rep("c", MinAssistantLen + 1)),
       UserMessage("r"), AssistantMessage(Rep("d", MinAssistantLen + 2))>>}

\* c1 in every variant, with and without a decision; c2 as a bystander.
CrashConvs ==
    {[id |-> "c1", date |-> "2024-01-01T10:00:00", title |-> "t1",
      messages |-> m, metadata |-> Metadata("P", <<"a">>, d)] :
        m \in CrashMessages, d \in {<<>>, <<Decision1>>}}
    \cup
    {[id |-> "c2", date |-> "2024-01-01T10:00:00", title |-> "t1",
      messages |-> <<UserMessage("q"), AssistantMessage(Rep("c", MinAssistantLen + 1))>>,
      metadata |-> Metadata("P", <<"a">>, <<>>)]}

CrashCalls == MigrateCalls(CrashConvs, ReindexVectors)

NextCrash ==
    \E p \in CrashProcs :
        \/ \E call \in CrashCalls : Begin(p, call)
        \/ CheckExisting(p)
        \/ DeleteChunksStep(p)
        \/ DeleteAssistantStep(p)
        \/ DeleteConvStep(p)
        \/ InsertConvStep(p)
        \/ InsertChunkStep(p)
        \/ InsertAssistantStep(p)
        \/ InsertDecisionStep(p)
        \/ Return(p)
        \/ Crash(p)

SpecCrash == Init /\ [][NextCrash]_vars

(***************************************************************************)
(* Relationship engine: find_related_conversations                         *)
(***************************************************************************)
RelatedScanLimit == 100
DefaultNResults == 5
MaxK == 2

\* set(list)
ToSet(seq) == {seq[k] : k \in DOMAIN seq}

\* One element of `related` for the scanned object obj.
RelatedLink(obj, source_topics, source_project) ==
    [conv_id |-> obj.conv_id,
     title |-> obj.title,
     project |-> obj.project,
     topic_overlap |-> Cardinality(source_topics \cap ToSet(obj.topics)),
     same_project |-> obj.project = source_project]

\* "if topic_overlap > 0 or same_project"
Qualifies(link) == link.topic_overlap > 0 \/ link.same_project

RECURSIVE RelatedFrom(_, _, _, _)
RelatedFrom(all_convs, conv_id, source_topics, source_project) ==
    IF all_convs = <<>> THEN <<>>
    ELSE LET obj == Head(all_convs)
             link == RelatedLink(obj, source_topics, source_project)
             rest == RelatedFrom(Tail(all_convs), conv_id, source_topics, source_project)
         IN IF obj.conv_id = conv_id THEN rest
            ELSE IF Qualifies(link) THEN <<link>> \o rest
            ELSE rest

OverlapOnlyGreater(a, b) == a.topic_overlap > b.topic_overlap
\* The key (x["topic_overlap"], x["same_project"]) of a is greater than b's:
\* tuples compare lexicographically, True above False.
KeyGreater(a, b) ==
    \/ a.topic_overlap > b.topic_overlap
    \/ a.topic_overlap = b.topic_overlap /\ a.same_project /\ ~b.same_project

\* list.sort(key=..., reverse=True): stable, so elements of equal key keep
\* their order.  x goes before the first element whose key is smaller.
InsertDescending(sorted, x) ==
    LET smaller == {k \in DOMAIN sorted : KeyGreater(x, sorted[k])}
        pos == IF smaller = {} THEN Len(sorted) + 1
               ELSE CHOOSE k \in smaller : \A j \in smaller : k <= j
    IN SubSeq(sorted, 1, pos - 1) \o <<x>> \o SubSeq(sorted, pos, Len(sorted))

RECURSIVE SortRelated(_)
SortRelated(related) ==
    IF related = <<>> THEN <<>>
    ELSE InsertDescending(SortRelated(SubSeq(related, 1, Len(related) - 1)),
                          related[Len(related)])

find_related_conversations(g, conv_id, n_results) ==
    LET source == FetchWhere(g.Conversation, conv_id) IN
    IF source = <<>> THEN <<>>
    ELSE LET source_topics == ToSet(source[1].topics)
             source_project == source[1].project
             all_convs == Prefix(g.Conversation, RelatedScanLimit)
             related == RelatedFrom(all_convs, conv_id, source_topics, source_project)
         IN Prefix(SortRelated(related), n_results)

AllIdle == \A p \in Procs : At(p, "idle")

FindRelated(conv_id, n_results) ==
    /\ AllIdle
    /\ reply = Absent
    /\ reply' = [op |-> "find_related_conversations",
                 conv_id |-> conv_id,
                 n_results |-> n_results,
                 result |-> find_related_conversations(G, conv_id, n_results)]
    /\ UNCHANGED <<graphVars, callVars, storeVars, chromaVars,
                 sessionVars>>

(***************************************************************************)
(* SpecRelated: conversations c1..c3 indexed with every project and topic  *)
(* list below, then queried.                                               *)
(***************************************************************************)
RelatedProjects == {"P", "Q"}
RelatedTopics == {<<>>, <<"a", "b">>, <<"b", "c">>}

RelatedConvs ==
    {[id |-> id, date |-> "2024-01-01T10:00:00", title |-> "t1",
      messages |-> <<UserMessage("q"), AssistantMessage("ok")>>,
      metadata |-> Metadata(project, topics, <<>>)] :
        id \in ConvIds, project \in RelatedProjects, topics \in RelatedTopics}

RelatedCalls == MigrateCalls(RelatedConvs, ReindexVectors)

ResultSizes == 0..MaxK \cup {DefaultNResults}

NextRelated ==
    \/ \E call \in RelatedCalls : AddConversation(call)
    \/ \E conv_id \in ConvIds, n_results \in ResultSizes :
          FindRelated(conv_id, n_results)

SpecRelated == Init /\ [][NextRelated]_vars

(***************************************************************************)
(* Relationship engine: find_similar_across_conversations                  *)
(*                                                                         *)
(* A vector v stands for the unit vector at the angle v * 60 degrees, so   *)
(* the cosine distances are exact in hundredths: 0, 50, 150 and 200.       *)
(***************************************************************************)
SourceFetchLimit == 100
NearExtra == 5
DefaultTopK == 10
One == 100

\* Cosine distance 1 - cos(angle between v and w), in hundredths.
Distance(v, w) ==
    LET d == IF v >= w THEN v - w ELSE w - v
        steps == Min(d % 6, 6 - (d % 6))
    IN CASE steps = 0 -> 0
         [] steps = 1 -> 50
         [] steps = 2 -> 150
         [] steps = 3 -> 200

\* near_vector(...): x goes before the first object that is farther away
\* (objects at the same distance stay in storage order).
InsertNearest(sorted, x) ==
    LET farther == {k \in DOMAIN sorted : sorted[k].distance > x.distance}
        pos == IF farther = {} THEN Len(sorted) + 1
               ELSE CHOOSE k \in farther : \A j \in farther : k <= j
    IN SubSeq(sorted, 1, pos - 1) \o <<x>> \o SubSeq(sorted, pos, Len(sorted))

RECURSIVE NearestFirst(_, _)
NearestFirst(coll, vector) ==
    IF coll = <<>> THEN <<>>
    ELSE LET last == coll[Len(coll)] IN
         InsertNearest(NearestFirst(SubSeq(coll, 1, Len(coll) - 1), vector),
                       [properties |-> last,
                        distance |-> Distance(vector, last.vector)])

\* chunk_collection.query.near_vector(near_vector=vector, limit=limit,
\*                                    return_metadata=MetadataQuery(distance=True))
near_vector(coll, vector, limit) == Prefix(NearestFirst(coll, vector), limit)

\* similarity = 1 - match.metadata.distance
Similarity(distance) == One - distance

NotAboveThreshold(similarity, threshold) == similarity <= threshold
\* "if similarity < threshold: continue"
BelowThreshold(similarity, threshold) == similarity < threshold

NeverSeen(links, match_conv_id) == FALSE
\* "match_conv_id not in seen_convs" negated: the target already has a link
AlreadySeen(links, match_conv_id) ==
    \E k \in DOMAIN links : links[k].conv_id = match_conv_id

Link(source_chunk, match) ==
    [conv_id |-> match.properties.conv_id,
     title |-> match.properties.title,
     project |-> match.properties.project,
     similarity |-> Similarity(match.distance),
     source_snippet |-> Prefix(source_chunk.content, 100),
     match_snippet |-> Prefix(match.properties.content, 100)]

\* "for match in similar.objects"
RECURSIVE MatchLoop(_, _, _, _, _)
MatchLoop(similar, conv_id, threshold, source_chunk, links) ==
    IF similar = <<>> THEN links
    ELSE LET match == Head(similar)
             rest == Tail(similar)
         IN IF match.properties.conv_id = conv_id
            THEN MatchLoop(rest, conv_id, threshold, source_chunk, links)
            ELSE IF BelowThreshold(Similarity(match.distance), threshold)
            THEN MatchLoop(rest, conv_id, threshold, source_chunk, links)
            ELSE IF AlreadySeen(links, match.properties.conv_id)
            THEN MatchLoop(rest, conv_id, threshold, source_chunk, links)
            ELSE MatchLoop(rest, conv_id, threshold, source_chunk,
                           Append(links, Link(source_chunk, match)))

RECURSIVE LastSourceFirst(_, _, _, _, _, _)
LastSourceFirst(source_chunks, coll, conv_id, threshold, top_k, links) ==
    IF source_chunks = <<>> THEN links
    ELSE LET source_chunk == source_chunks[Len(source_chunks)]
             similar == near_vector(coll, source_chunk.vector, top_k + NearExtra)
         IN LastSourceFirst(SubSeq(source_chunks, 1, Len(source_chunks) - 1),
                            coll, conv_id, threshold, top_k,
                            MatchLoop(similar, conv_id, threshold, source_chunk, links))

\* "for source_chunk in source_chunks.objects"
RECURSIVE SourceLoop(_, _, _, _, _, _)
SourceLoop(source_chunks, coll, conv_id, threshold, top_k, links) ==
    IF source_chunks = <<>> THEN links
    ELSE LET source_chunk == Head(source_chunks)
             similar == near_vector(coll, source_chunk.vector, top_k + NearExtra)
         IN SourceLoop(Tail(source_chunks), coll, conv_id, threshold, top_k,
                       MatchLoop(similar, conv_id, threshold, source_chunk, links))

\* links.sort(key=lambda x: x["similarity"], reverse=True): stable.
InsertBySimilarity(sorted, x) ==
    LET smaller == {k \in DOMAIN sorted : sorted[k].similarity < x.similarity}
        pos == IF smaller = {} THEN Len(sorted) + 1
               ELSE CHOOSE k \in smaller : \A j \in smaller : k <= j
    IN SubSeq(sorted, 1, pos - 1) \o <<x>> \o SubSeq(sorted, pos, Len(sorted))

RECURSIVE SortLinks(_)
SortLinks(links) ==
    IF links = <<>> THEN <<>>
    ELSE InsertBySimilarity(SortLinks(SubSeq(links, 1, Len(links) - 1)),
                            links[Len(links)])

\* The collection the query runs on: AssistantChunk, or MessageChunk when the
\* conversation has no assistant chunk.
AssistantChunkOnly(g, conv_id) == "AssistantChunk"
SimilarCollectionName(g, conv_id) ==
    IF FetchWhere(g.AssistantChunk, conv_id) # <<>>
    THEN "AssistantChunk" ELSE "MessageChunk"

SimilarCollection(g, conv_id) == g[SimilarCollectionName(g, conv_id)]

\* The nearest-neighbour queries the call issues: one per source chunk, on the
\* collection the source chunks were fetched from.
SimilarQueries(g, conv_id, top_k) ==
    LET source_chunks == Prefix(FetchWhere(SimilarCollection(g, conv_id), conv_id),
                                SourceFetchLimit)
    IN [i \in 1..Len(source_chunks) |->
          [collection |-> SimilarCollectionName(g, conv_id),
           near_vector |-> source_chunks[i].vector,
           limit |-> top_k + NearExtra]]

find_similar_across_conversations(g, conv_id, threshold, top_k) ==
    LET coll == SimilarCollection(g, conv_id)
        source_chunks == Prefix(FetchWhere(coll, conv_id), SourceFetchLimit)
    IN IF source_chunks = <<>> THEN <<>>
       ELSE Prefix(SortLinks(SourceLoop(source_chunks, coll, conv_id,
                                        threshold, top_k, <<>>)),
                   top_k)

FindSimilar(conv_id, threshold, top_k) ==
    /\ AllIdle
    /\ reply = Absent
    /\ reply' = [op |-> "find_similar_across_conversations",
                 conv_id |-> conv_id,
                 threshold |-> threshold,
                 top_k |-> top_k,
                 queries |-> SimilarQueries(G, conv_id, top_k),
                 result |-> find_similar_across_conversations(G, conv_id, threshold, top_k)]
    /\ UNCHANGED <<graphVars, callVars, storeVars, chromaVars,
                 sessionVars>>

(***************************************************************************)
(* SpecSimilar: conversations c1..c3 of one or two turn pairs, each pair   *)
(* embedded at 0 or 60 degrees, then queried at thresholds 0.50 and 0.51.  *)
(***************************************************************************)
SimilarVectors == {0, 1}
SimilarThresholds == {50, 51}
TopKs == 0..MaxK \cup {DefaultTopK}

SimilarMessages ==
    {<<UserMessage("q"), AssistantMessage("ok")>>,
     <<UserMessage("q"), AssistantMessage(Rep("c", MinAssistantLen + 1))>>,
     <<UserMessage("q"), AssistantMessage(Rep("c", MinAssistantLen + 1)),
       UserMessage("r"), AssistantMessage(Rep("d", MinAssistantLen + 2))>>}

SimilarConvs ==
    {[id |-> id, date |-> "2024-01-01T10:00:00", title |-> "t1",
      messages |-> m, metadata |-> Metadata("P", <<"a">>, <<>>)] :
        id \in ConvIds, m \in SimilarMessages}

\* The embedder gives an assistant text the direction of its turn pair.
SimilarCalls ==
    {call \in MigrateCalls(SimilarConvs, SimilarVectors) :
        \A j \in DOMAIN call.assistant_chunks :
            call.assistant_embeddings[j]
              = call.embeddings[call.assistant_chunks[j].metadata.chunk_index + 1]}

NextSimilar ==
    \/ \E call \in SimilarCalls : AddConversation(call)
    \/ \E conv_id \in ConvIds, threshold \in SimilarThresholds, top_k \in TopKs :
          FindSimilar(conv_id, threshold, top_k)

SpecSimilar == Init /\ [][NextSimilar]_vars

(***************************************************************************)
(* Relationship engine: build_conversation_graph                           *)
(***************************************************************************)
GraphScanLimit == 500
GraphTopK == 5
DefaultGraphThreshold == 80

AlwaysKept(related) == TRUE
\* "if related:"
Truthy(related) == related # <<>>

\* "for conv in all_convs.objects"
RECURSIVE GraphLoop(_, _, _, _)
GraphLoop(g, all_convs, threshold, graph) ==
    IF all_convs = <<>> THEN graph
    ELSE LET conv_id == Head(all_convs).conv_id
             related == find_similar_across_conversations(g, conv_id, threshold,
                                                          GraphTopK)
         IN GraphLoop(g, Tail(all_convs), threshold,
                      IF Truthy(related) THEN (conv_id :> related) @@ graph
                      ELSE graph)

build_conversation_graph(g, threshold) ==
    GraphLoop(g, Prefix(g.Conversation, GraphScanLimit), threshold, <<>>)

BuildGraph(threshold) ==
    /\ AllIdle
    /\ reply = Absent
    /\ reply' = [op |-> "build_conversation_graph",
                 threshold |-> threshold,
                 graph |-> build_conversation_graph(G, threshold)]
    /\ UNCHANGED <<graphVars, callVars, storeVars, chromaVars,
                 sessionVars>>

(***************************************************************************)
(* SpecGraph: the conversations of SpecSimilar, then one graph build.      *)
(***************************************************************************)
GraphThresholds == SimilarThresholds \cup {DefaultGraphThreshold}

NextGraph ==
    \/ \E call \in SimilarCalls : AddConversation(call)
    \/ \E threshold \in GraphThresholds : BuildGraph(threshold)

SpecGraph == Init /\ [][NextGraph]_vars

(***************************************************************************)
(* Record store, sync and the Chroma index                                 *)
(*                                                                         *)
(* files maps a conversation id to the record in conversations/<id>.json,  *)
(* index is index.json's "conversations" list and collection is the Chroma *)
(* collection "conversations", in insertion order.                         *)
(***************************************************************************)
\* store.get_conversation(conv_id); None is Absent
get_conversation(fs, conv_id) ==
    IF conv_id \in DOMAIN fs THEN fs[conv_id] ELSE Absent

\* f"{conv_id}_chunk_{chunk['metadata']['chunk_index']}"
ChunkId(conv_id, chunk) ==
    conv_id \o "_chunk_" \o ToString(chunk.metadata.chunk_index)

\* self._encode_document(text): the model's output is a function of the text.
_encode_document(text) == <<"bge", text>>

HasId(coll, id) == \E k \in DOMAIN coll : coll[k].id = id

\* collection.add(ids=[...], ...): Chroma keeps the entry it already has under
\* an id and drops the new one.
CollectionAdd(coll, entry) ==
    IF HasId(coll, entry.id) THEN coll ELSE Append(coll, entry)

ChromaEntry(conv_id, chunk) ==
    [id |-> ChunkId(conv_id, chunk),
     embedding |-> _encode_document(chunk.text),
     document |-> chunk.text,
     metadata |-> chunk.metadata]

\* "for chunk in chunks"
RECURSIVE IndexChunks(_, _, _)
IndexChunks(coll, conv_id, chunks) ==
    IF chunks = <<>> THEN coll
    ELSE IndexChunks(CollectionAdd(coll, ChromaEntry(conv_id, Head(chunks))),
                     conv_id, Tail(chunks))

index_conversation(fs, coll, conv_id) ==
    LET conversation == get_conversation(fs, conv_id) IN
    IF conversation = Absent THEN coll
    ELSE IndexChunks(coll, conv_id, _chunk_conversation(conversation))

IndexEntry(conv) ==
    [id |-> conv.id, date |-> conv.date, title |-> conv.title,
     project |-> conv.metadata.project, topics |-> <<>>,
     file |-> conv.id \o ".json"]

InIndex(ix, conv_id) == \E k \in DOMAIN ix : ix[k].id = conv_id

NotLonger(fs, conv) ==
    LET existing == get_conversation(fs, conv.id) IN
    existing # Absent /\ Len(conv.messages) < Len(existing.messages)
\* "if existing: if len(conv['messages']) <= len(existing.get('messages', []))"
NotGrown(fs, conv) ==
    LET existing == get_conversation(fs, conv.id) IN
    existing # Absent /\ Len(conv.messages) <= Len(existing.messages)

EntriesFor(coll, conv_id) ==
    {coll[k] : k \in {j \in DOMAIN coll : coll[j].metadata.conversation_id = conv_id}}

\* _save_conversation(store, conv, manager) with a manager.
SaveConversation(conv) ==
    /\ IF NotGrown(files, conv)
       THEN /\ UNCHANGED <<files, index, collection>>
            /\ indexed' = [op |-> "_save_conversation", conv_id |-> conv.id,
                           saved |-> FALSE, changed |-> FALSE,
                           had_entries |-> EntriesFor(collection, conv.id) # {},
                           incoming |-> Len(conv.messages)]
       ELSE /\ files' = [files EXCEPT ![conv.id] = conv]
            /\ index' = IF InIndex(index, conv.id) THEN index
                        ELSE Append(index, IndexEntry(conv))
            /\ collection' = index_conversation(files', collection, conv.id)
            /\ indexed' = [op |-> "_save_conversation", conv_id |-> conv.id,
                           saved |-> TRUE,
                           changed |-> files[conv.id] # Absent /\ files[conv.id] # conv,
                           had_entries |-> EntriesFor(collection, conv.id) # {},
                           incoming |-> Len(conv.messages)]
    /\ UNCHANGED <<graphVars, callVars, reply, sessionVars>>

\* "for conv in conversations: self.index_conversation(conv['id'])" over
\* store.get_all_conversations(), which follows the summary index.
RECURSIVE IndexAll(_, _, _)
IndexAll(fs, ix, coll) ==
    IF ix = <<>> THEN coll
    ELSE IndexAll(fs, Tail(ix),
                  IF get_conversation(fs, Head(ix).id) = Absent THEN coll
                  ELSE index_conversation(fs, coll, Head(ix).id))

MaxRebuilds == 2

KeepCollection(coll) == coll
\* self.client.delete_collection("conversations"); get_or_create_collection(...)
delete_collection(coll) == <<>>

\* How many rebuild_index calls in a row, over an unchanged record store, the
\* next one completes.
RebuildRun ==
    IF /\ indexed # Absent
       /\ indexed.op = "rebuild_index"
       /\ indexed.store = <<files, index>>
    THEN indexed.runs + 1 ELSE 1

\* EmbeddingManager.rebuild_index()
RebuildIndex ==
    /\ RebuildRun <= MaxRebuilds
    /\ collection' = IndexAll(files, index, delete_collection(collection))
    /\ indexed' = [op |-> "rebuild_index", conv_id |-> None, saved |-> FALSE,
                   changed |-> FALSE, had_entries |-> FALSE, runs |-> RebuildRun,
                   store |-> <<files, index>>]
    /\ UNCHANGED <<graphVars, callVars, reply, files, index, sessionVars>>

\* manager.index_conversation(conv_id), called on its own.  Both ways out of
\* the function are a plain return of None.
IndexConversation(conv_id) ==
    /\ collection' = index_conversation(files, collection, conv_id)
    /\ indexed' = [op |-> "index_conversation", conv_id |-> conv_id,
                   saved |-> FALSE, changed |-> FALSE,
                   had_entries |-> EntriesFor(collection, conv_id) # {},
                   found |-> get_conversation(files, conv_id) # Absent,
                   outcome |-> "returned None",
                   wrote |-> collection' # collection]
    /\ UNCHANGED <<graphVars, callVars, reply, files, index, sessionVars>>

(***************************************************************************)
(* SpecSync: two synced sources whose transcripts grow and are rewritten.  *)
(***************************************************************************)
SyncIds == {"c1", "c2"}
SyncMessages ==
    {<<UserMessage("q"), AssistantMessage("ok")>>,
     <<UserMessage("r"), AssistantMessage("ok")>>,
     <<UserMessage("q"), AssistantMessage("ok"), UserMessage("q2")>>,
     <<UserMessage("q"), AssistantMessage("ok"),
       UserMessage("q2"), AssistantMessage("ok2")>>,
     <<UserMessage("r"), AssistantMessage("ok"),
       UserMessage("q2"), AssistantMessage("ok2")>>}

SyncConvs ==
    {[id |-> id, date |-> "2024-01-01T10:00:00", title |-> "Q CLI: P",
      messages |-> m, metadata |-> Metadata("P", <<>>, <<>>)] :
        id \in SyncIds, m \in SyncMessages}

NextSync ==
    \/ \E conv \in SyncConvs : SaveConversation(conv)
    \/ RebuildIndex

SpecSync == Init /\ [][NextSync]_vars

(***************************************************************************)
(* Record store: ConversationStore                                         *)
(*                                                                         *)
(* Every process holds its own ConversationStore, whose self.index is read *)
(* from index.json when the store is constructed and written back whole by *)
(* _save_index.  An operation is one step: its file write and its index    *)
(* write are not interleaved with another process's.                       *)
(***************************************************************************)
MaxDay == 2
MaxIndexEntries == 3

\* date.strftime('%Y%m%d') and date.isoformat()
DayStamp(day) == "2024010" \o ToString(day)
IsoDate(day) == "2024-01-0" \o ToString(day) \o "T10:00:00"

\* json.dumps(messages, sort_keys=True)
CanonicalMessage(m) ==
    "{content:" \o m.content \o ",role:" \o m.role
                \o ",timestamp:" \o m.timestamp \o "}"
RECURSIVE CanonicalList(_)
CanonicalList(messages) ==
    IF messages = <<>> THEN ""
    ELSE IF Len(messages) = 1 THEN CanonicalMessage(messages[1])
    ELSE CanonicalMessage(messages[1]) \o "," \o CanonicalList(Tail(messages))
Canonical(messages) == "[" \o CanonicalList(messages) \o "]"

\* hashlib.sha256(...).hexdigest()[:8], as a digest without collisions
Sha8(text) == "sha8(" \o text \o ")"

\* conv_id = f"{date.strftime('%Y%m%d')}-{content_hash}"
GenerateId(day, messages) == DayStamp(day) \o "-" \o Sha8(Canonical(messages))

StoreMetadata(project, topics) ==
    [project |-> project, topics |-> topics, decisions |-> <<>>,
     related_conversations |-> <<>>, tags |-> <<>>, artifacts |-> <<>>]

StoreRecord(day, messages, title, project, topics) ==
    [id |-> GenerateId(day, messages), date |-> IsoDate(day), title |-> title,
     messages |-> messages, metadata |-> StoreMetadata(project, topics)]

SummaryEntry(conv, topics) ==
    [id |-> conv.id, date |-> conv.date, title |-> conv.title,
     project |-> conv.metadata.project, topics |-> topics,
     file |-> conv.id \o ".json"]

\* open(conv_file, 'w'); json.dump(...)
WriteFile(fs, conv) == (conv.id :> conv) @@ fs

\* conv_file.exists() and json.load, or None
ReadFile(fs, conv_id) == get_conversation(fs, conv_id)

Loaded(p) == mem[p].loaded

\* ConversationStore.__init__: self._load_index()
Load(p) ==
    /\ ~Loaded(p)
    /\ mem' = [mem EXCEPT ![p] = [loaded |-> TRUE, conversations |-> index]]
    /\ UNCHANGED <<graphVars, callVars, reply, storeVars, chromaVars, today,
                   issued, writer, overlapped>>

MergedIndex(ix, conversations) ==
    ix \o SelectSeq(conversations,
                    LAMBDA e : ~\E k \in DOMAIN ix : ix[k].id = e.id)
\* self._save_index(): json.dump(self.index, f) over what index.json held
_save_index(ix, conversations) == conversations

\* self.index["conversations"].append({...})
AppendSummary(conversations, entry) == Append(conversations, entry)

\* ConversationStore.add_conversation(messages, title, project, topics)
StoreAdd(p, messages, title, project, topics) ==
    LET conversation == StoreRecord(today, messages, title, project, topics)
        conversations == AppendSummary(mem[p].conversations,
                                       SummaryEntry(conversation, topics))
    IN /\ Loaded(p)
       /\ Len(mem[p].conversations) < MaxIndexEntries
       /\ files' = WriteFile(files, conversation)
       /\ mem' = [mem EXCEPT ![p].conversations = conversations]
       /\ index' = _save_index(index, conversations)
       /\ writer' = p
       /\ issued' = issued \cup {[messages |-> messages, id |-> conversation.id]}
       /\ UNCHANGED <<graphVars, callVars, reply, chromaVars, today, overlapped>>

\* conv["metadata"].update(metadata_updates)
UpdateDict(metadata, metadata_updates) == metadata_updates @@ metadata

\* "for conv_meta in self.index['conversations']: if conv_meta['id'] == conv_id"
UpdateSummaries(conversations, conv) ==
    [k \in DOMAIN conversations |->
        IF conversations[k].id = conv.id
        THEN [conversations[k] EXCEPT !.project = conv.metadata.project,
                                      !.topics = conv.metadata.topics]
        ELSE conversations[k]]

\* ConversationStore.update_metadata(conv_id, metadata_updates)
UpdateMetadata(p, conv_id, metadata_updates) ==
    LET conv == ReadFile(files, conv_id) IN
    /\ Loaded(p)
    /\ conv # Absent
    /\ LET updated == [conv EXCEPT !.metadata = UpdateDict(conv.metadata, metadata_updates)]
           conversations == UpdateSummaries(mem[p].conversations, updated)
       IN /\ files' = WriteFile(files, updated)
          /\ mem' = [mem EXCEPT ![p].conversations = conversations]
          /\ index' = _save_index(index, conversations)
          /\ writer' = p
    /\ UNCHANGED <<graphVars, callVars, reply, chromaVars, today, issued,
                 overlapped>>

\* _save_conversation(store, conv, None): sync(index_embeddings=False)
SyncSave(p, conv) ==
    LET existing == ReadFile(files, conv.id)
        known == \E k \in DOMAIN mem[p].conversations :
                    mem[p].conversations[k].id = conv.id
    IN /\ Loaded(p)
       /\ Len(mem[p].conversations) < MaxIndexEntries
       /\ ~(existing # Absent /\ Len(conv.messages) <= Len(existing.messages))
       /\ files' = WriteFile(files, conv)
       /\ IF known THEN UNCHANGED <<mem, index, writer>>
          ELSE /\ mem' = [mem EXCEPT ![p].conversations =
                              Append(@, SummaryEntry(conv, <<>>))]
               /\ index' = _save_index(index, mem'[p].conversations)
               /\ writer' = p
       /\ UNCHANGED <<graphVars, callVars, reply, chromaVars, today, issued,
                 overlapped>>

\* datetime.now() moves to the next day.
Midnight ==
    /\ today < MaxDay
    /\ today' = today + 1
    /\ UNCHANGED <<graphVars, callVars, reply, storeVars, chromaVars, mem,
                   issued, writer, overlapped>>

\* ConversationStore.get_all_conversations(), read by a fresh process
get_all_conversations(fs, conversations) ==
    LET present == SelectSeq(conversations, LAMBDA e : ReadFile(fs, e.id) # Absent)
    IN [k \in DOMAIN present |-> ReadFile(fs, present[k].id)]

(***************************************************************************)
(* SpecStore: one process adds, updates and syncs over two days.           *)
(***************************************************************************)
StoreProcs == {"p1"}
StoreMessages ==
    {<<>>,
     <<UserMessage("q"), AssistantMessage("ok")>>,
     <<UserMessage("r"), AssistantMessage("ok")>>}
StoreTitles == {"t1", "t2"}
MetadataUpdates == {[topics |-> <<"a">>], [project |-> "Q"]}
StoreSyncConvs ==
    {[id |-> "c1", date |-> "2024-01-01T10:00:00", title |-> "Q CLI: P",
      messages |-> m, metadata |-> Metadata("P", <<>>, <<>>)] :
        m \in {<<UserMessage("q"), AssistantMessage("ok")>>,
               <<UserMessage("q"), AssistantMessage("ok"),
                 UserMessage("q2"), AssistantMessage("ok2")>>}}

NextStore ==
    \/ \E p \in StoreProcs : Load(p)
    \/ \E p \in StoreProcs, messages \in StoreMessages, title \in StoreTitles :
          StoreAdd(p, messages, title, "P", <<>>)
    \/ \E p \in StoreProcs, conv_id \in DOMAIN files,
          metadata_updates \in MetadataUpdates :
          UpdateMetadata(p, conv_id, metadata_updates)
    \/ \E p \in StoreProcs, conv \in StoreSyncConvs : SyncSave(p, conv)
    \/ Midnight

SpecStore == Init /\ [][NextStore]_vars

(***************************************************************************)
(* SpecRace: two processes, each with its own ConversationStore, write to  *)
(* the same directory.                                                     *)
(***************************************************************************)
RaceMessages ==
    {<<UserMessage("q"), AssistantMessage("ok")>>,
     <<UserMessage("r"), AssistantMessage("ok")>>}
RaceUpdates == {[topics |-> <<"a">>]}

MaxRaceEntries == 2
HasRoom(p) == Len(mem[p].conversations) < MaxRaceEntries

NextRace ==
    \/ \E p \in Procs : Load(p)
    \/ \E p \in Procs, messages \in RaceMessages :
          HasRoom(p) /\ StoreAdd(p, messages, "t1", "P", <<>>)
    \/ \E p \in Procs, conv_id \in DOMAIN files, metadata_updates \in RaceUpdates :
          UpdateMetadata(p, conv_id, metadata_updates)
    \/ \E p \in Procs, conv \in StoreSyncConvs : HasRoom(p) /\ SyncSave(p, conv)

SpecRace == Init /\ [][NextRace]_vars

(***************************************************************************)
(* SpecRebuild: a store process adds conversations, sync runs save and     *)
(* index others, and the Chroma index is indexed into and rebuilt.         *)
(***************************************************************************)
RebuildMessages ==
    {<<UserMessage("q"), AssistantMessage("ok")>>,
     <<UserMessage("q"), AssistantMessage("ok"),
       UserMessage("q2"), AssistantMessage("ok2")>>}
RebuildSyncConvs ==
    {[id |-> "c1", date |-> "2024-01-01T10:00:00", title |-> "Q CLI: P",
      messages |-> m, metadata |-> Metadata("P", <<>>, <<>>)] :
        m \in {<<UserMessage("r"), AssistantMessage("ok")>>,
               <<UserMessage("q"), AssistantMessage("ok"), UserMessage("q2")>>}}

NextRebuild ==
    \/ \E p \in StoreProcs : Load(p)
    \/ \E p \in StoreProcs, messages \in RebuildMessages :
          StoreAdd(p, messages, "t1", "P", <<>>)
    \/ \E conv \in RebuildSyncConvs : SaveConversation(conv)
    \/ \E conv_id \in ConvIds \cup DOMAIN files : IndexConversation(conv_id)
    \/ RebuildIndex

SpecRebuild == Init /\ [][NextRebuild]_vars

(***************************************************************************)
(* Bulk migration: migrate()                                               *)
(***************************************************************************)
\* model.encode(texts).tolist(): one vector per text
encode(texts) == [k \in DOMAIN texts |-> 0]

NeverSkipped(full_chunks) == FALSE
\* "if not full_chunks: continue"
NoChunks(full_chunks) == full_chunks = <<>>

\* conv.get("metadata", {}).get("source", "")
GetDefaults(conv) == [conv EXCEPT !.metadata = @ @@ [source |-> ""]]

MigrateCall(conv) ==
    LET out == chunk_conversation(conv) IN
    [conv |-> GetDefaults(conv),
     chunks |-> out.full,
     embeddings |-> encode(out.full),
     assistant_chunks |-> out.assistant,
     assistant_embeddings |-> encode(out.assistant)]

\* "for conv in conversations"
RECURSIVE MigrateLoop(_, _)
MigrateLoop(g, conversations) ==
    IF conversations = <<>> THEN g
    ELSE LET conv == Head(conversations) IN
         IF NoChunks(chunk_conversation(conv).full)
         THEN MigrateLoop(g, Tail(conversations))
         ELSE MigrateLoop(add_conversation(g, MigrateCall(conv)),
                          Tail(conversations))

\* migrate(), run to completion by a fresh process
Migrate ==
    /\ AllIdle
    /\ SetGraph(MigrateLoop(G, get_all_conversations(files, index)))
    /\ calls' = [op |-> "migrate",
                 conversations |-> [k \in DOMAIN index |-> index[k].id]]
    /\ UNCHANGED <<proc, interrupted, reply, storeVars, chromaVars, sessionVars>>

(***************************************************************************)
(* SpecBulk: records of zero, one and two messages are stored, then        *)
(* migrated into the graph store and indexed into the Chroma collection.   *)
(***************************************************************************)
BulkMessages ==
    {<<>>,
     <<UserMessage("q")>>,
     <<UserMessage("q"), AssistantMessage("ok")>>,
     <<UserMessage("q"), AssistantMessage(Rep("c", MinAssistantLen + 1))>>}

NextBulk ==
    \/ \E p \in StoreProcs : Load(p)
    \/ \E p \in StoreProcs, messages \in BulkMessages :
          StoreAdd(p, messages, "t1", "P", <<>>)
    \/ Migrate
    \/ \E conv_id \in DOMAIN files : IndexConversation(conv_id)
    \/ RebuildIndex

SpecBulk == Init /\ [][NextBulk]_vars

(***************************************************************************)
(* Record store: list_conversations                                        *)
(***************************************************************************)
\* One pass of the loop body: TRUE when conv_meta is appended to results.
\* A filter that is None is not applied.
Listed1(conv_meta, fs, project, topic, tag) ==
    /\ ~(project # None /\ conv_meta.project # project)
    /\ ~(topic # None /\ topic \notin ToSet(conv_meta.topics))
    /\ ~(tag # None
         /\ tag \notin ToSet(get_conversation(fs, conv_meta.id).metadata.tags))

\* ConversationStore.list_conversations(project, topic, tag)
list_conversations(conversations, fs, project, topic, tag) ==
    SelectSeq(conversations, LAMBDA conv_meta : Listed1(conv_meta, fs, project, topic, tag))

ListConversations(p, project, topic, tag) ==
    /\ Loaded(p)
    /\ reply' = [op |-> "list_conversations", project |-> project,
                 topic |-> topic, tag |-> tag,
                 result |-> list_conversations(mem[p].conversations, files,
                                               project, topic, tag)]
    /\ UNCHANGED <<graphVars, callVars, storeVars, chromaVars, sessionVars>>

(***************************************************************************)
(* SpecList: one process adds, updates, syncs and lists.                   *)
(***************************************************************************)
ListProjects == {"P", "Q"}
ListFilters ==
    {<<project, None, None>> : project \in ListProjects} \cup {<<None, "a", None>>}
ListMessages == {<<UserMessage("q"), AssistantMessage("ok")>>}

NextList ==
    \/ \E p \in StoreProcs : Load(p)
    \/ \E p \in StoreProcs, messages \in ListMessages, project \in ListProjects :
          HasRoom(p) /\ StoreAdd(p, messages, "t1", project, <<>>)
    \/ \E p \in StoreProcs, conv_id \in DOMAIN files,
          metadata_updates \in MetadataUpdates :
          UpdateMetadata(p, conv_id, metadata_updates)
    \/ \E p \in StoreProcs, conv \in StoreSyncConvs : SyncSave(p, conv)
    \/ \E p \in StoreProcs, f \in ListFilters : ListConversations(p, f[1], f[2], f[3])

SpecList == Init /\ [][NextList]_vars

(***************************************************************************)
(* Sync importers: transform_conversation, transform_browser_conversation  *)
(***************************************************************************)
MaxTurns == 3

\* first_ts[:10].replace('-', ''), for an ISO-8601 timestamp
DatePart(ts) ==
    LET day == Prefix(ts, 10) IN
    SubSeq(day, 1, 4) \o SubSeq(day, 6, 7) \o SubSeq(day, 9, 10)

\* The messages one history turn contributes: the prompt if it is not empty,
\* then the response if it is not empty.
TurnMessages(turn) ==
    (IF turn.prompt # ""
     THEN <<[role |-> "user", content |-> turn.prompt, timestamp |-> turn.timestamp]>>
     ELSE <<>>)
    \o (IF turn.response # ""
        THEN <<[role |-> "assistant", content |-> turn.response,
                timestamp |-> turn.timestamp]>>
        ELSE <<>>)

RECURSIVE HistoryMessages(_)
HistoryMessages(history) ==
    IF history = <<>> THEN <<>>
    ELSE TurnMessages(Head(history)) \o HistoryMessages(Tail(history))

\* transform_conversation(q_conv); None is Absent
transform_conversation(q_conv) ==
    LET messages == HistoryMessages(q_conv.history) IN
    IF q_conv.history = <<>> \/ messages = <<>> THEN Absent
    ELSE [id |-> DatePart(messages[1].timestamp) \o "-" \o Sha8(q_conv.project_path),
          date |-> messages[1].timestamp,
          title |-> "Q CLI: " \o q_conv.project_name,
          messages |-> messages,
          metadata |-> [project |-> q_conv.project_name, topics |-> <<>>,
                        decisions |-> <<>>, tags |-> <<q_conv.source>>,
                        source |-> q_conv.source]]

RECURSIVE BrowserMessages(_, _)
BrowserMessages(raw_messages, createdAt) ==
    IF raw_messages = <<>> THEN <<>>
    ELSE LET msg == Head(raw_messages) IN
         (IF msg.text # ""
          THEN <<[role |-> IF msg.sender = "Human" THEN "user" ELSE "assistant",
                  content |-> msg.text, timestamp |-> createdAt]>>
          ELSE <<>>)
         \o BrowserMessages(Tail(raw_messages), createdAt)

\* transform_browser_conversation(thread), on the thread's first branch
transform_browser_conversation(thread) ==
    LET messages == BrowserMessages(thread.messages, thread.createdAt) IN
    IF thread.messages = <<>> \/ messages = <<>> THEN Absent
    ELSE [id |-> DatePart(thread.createdAt) \o "-" \o Sha8(thread.id),
          date |-> thread.createdAt,
          title |-> thread.name,
          messages |-> messages,
          metadata |-> [project |-> "browser-chat", topics |-> <<>>,
                        decisions |-> <<>>, tags |-> <<"browser-chat">>,
                        source |-> "browser-chat"]]

\* What migrate() derives from an imported conversation.
Imported(kind, conv) ==
    /\ reply = Absent
    /\ reply' = [op |-> "import", kind |-> kind, conversation |-> conv,
                 full |-> IF conv = Absent THEN <<>>
                          ELSE chunk_conversation(conv).full]
    /\ UNCHANGED <<graphVars, callVars, storeVars, chromaVars, sessionVars>>

ImportCli(q_conv) == Imported("q-cli", transform_conversation(q_conv))
ImportBrowser(thread) == Imported("browser-chat", transform_browser_conversation(thread))

(***************************************************************************)
(* SpecImport: CLI histories and browser threads of up to MaxTurns turns.  *)
(***************************************************************************)
Turns ==
    [prompt : {"", "q", "r"}, response : {"", "ok"},
     timestamp : {"2024-01-01T10:00:00"}]
QConvs ==
    {[history |-> h, project_path |-> "/home/u/P", project_name |-> "P",
      source |-> "q-cli"] : h \in SeqUpTo(Turns, MaxTurns)}
RawMessages == [sender : {"Human", "Assistant"}, text : {"", "q"}]
Threads ==
    {[id |-> "th1", name |-> "Browser Chat", createdAt |-> "2024-01-01T10:00:00",
      messages |-> m] : m \in SeqUpTo(RawMessages, MaxTurns)}

NextImport ==
    \/ \E q_conv \in QConvs : ImportCli(q_conv)
    \/ \E thread \in Threads : ImportBrowser(thread)

SpecImport == Init /\ [][NextImport]_vars

(***************************************************************************)
(* SpecScan: a collection that grows past find_related_conversations'      *)
(* scan limit.  Conversations s1, s2, ... are indexed in order; s1 has     *)
(* project "P", and at most one later conversation shares it.              *)
(***************************************************************************)
MaxScanned == 102

ScanId(n) == "s" \o ToString(n)

ScanConv(n, project) ==
    [id |-> ScanId(n), date |-> "2024-01-01T10:00:00", title |-> "t1",
     messages |-> <<UserMessage("q"), AssistantMessage("ok")>>,
     metadata |-> Metadata(project, <<>>, <<>>)]

WithProject(coll, project) == {k \in DOMAIN coll : coll[k].project = project}

ScanAdd(project) ==
    LET n == Len(Conversation) + 1 IN
    /\ n <= MaxScanned
    /\ n = 1 => project = "P"
    /\ (n > 1 /\ project = "P") => Cardinality(WithProject(Conversation, "P")) < 2
    /\ AllIdle
    /\ reply = Absent
    /\ SetGraph(add_conversation(G, MigrateCall(ScanConv(n, project))))
    /\ UNCHANGED <<callVars, reply, storeVars, chromaVars, sessionVars>>

NextScan ==
    \/ \E project \in {"P", "F"} : ScanAdd(project)
    \/ \E k \in WithProject(Conversation, "P") :
          FindRelated(Conversation[k].conv_id, DefaultNResults)

SpecScan == Init /\ [][NextScan]_vars

(***************************************************************************)
(* Semantic search: GraphStore.search and EmbeddingManager.search          *)
(***************************************************************************)
\* "if project": None and "" build no filter
HasFilter(project) == project # None /\ project # ""

\* near_vector(..., filters=Filter.by_property("project").equal(project))
FilterProject(coll, project) ==
    IF HasFilter(project) THEN SelectSeq(coll, LAMBDA e : e.project = project)
    ELSE coll

SearchResult(obj) ==
    [text |-> obj.properties.content,
     metadata |-> [conversation_id |-> obj.properties.conv_id,
                   conversation_title |-> obj.properties.title,
                   project |-> obj.properties.project,
                   timestamp |-> obj.properties.timestamp],
     distance |-> obj.distance]

\* GraphStore.search(query_embedding, n_results, project)
search(g, query_embedding, n_results, project) ==
    LET results == near_vector(FilterProject(g.MessageChunk, project),
                               query_embedding, n_results)
    IN [k \in DOMAIN results |-> SearchResult(results[k])]

\* collection.query(query_embeddings=[...], n_results=n_results, where=where):
\* the entries that match where, nearest first.  The embedder is opaque, so
\* the entries are taken to be equally far from the query and keep their
\* storage order.
ChromaQuery(coll, n_results, project) ==
    Prefix(IF HasFilter(project)
           THEN SelectSeq(coll, LAMBDA e : e.metadata.project = project)
           ELSE coll,
           n_results)

\* EmbeddingManager.search(query, n_results, project)
em_search(coll, n_results, project) ==
    LET results == ChromaQuery(coll, n_results, project)
    IN [k \in DOMAIN results |->
           [text |-> results[k].document, metadata |-> results[k].metadata]]

Search(project) ==
    /\ AllIdle
    /\ reply = Absent
    /\ reply' = [op |-> "GraphStore.search", project |-> project,
                 result |-> search(G, 0, DefaultNResults, project)]
    /\ UNCHANGED <<graphVars, callVars, storeVars, chromaVars, sessionVars>>

EmSearch(project) ==
    /\ reply = Absent
    /\ reply' = [op |-> "EmbeddingManager.search", project |-> project,
                 result |-> em_search(collection, DefaultNResults, project)]
    /\ UNCHANGED <<graphVars, callVars, storeVars, chromaVars, sessionVars>>

(***************************************************************************)
(* SpecDenorm: records are stored under project "P", indexed into both     *)
(* vector indexes, moved to project "Q", and searched by project.          *)
(***************************************************************************)
DenormMessages ==
    {<<UserMessage("q"), AssistantMessage("ok")>>,
     <<UserMessage("r"), AssistantMessage("ok")>>}
SearchProjects == {None, "P", "Q"}

NextDenorm ==
    \/ \E p \in StoreProcs : Load(p)
    \/ \E p \in StoreProcs, messages \in DenormMessages, project \in ListProjects :
          reply = Absent /\ HasRoom(p) /\ StoreAdd(p, messages, "t1", project, <<>>)
    \/ \E p \in StoreProcs, conv_id \in DOMAIN files, project \in ListProjects :
          reply = Absent /\ UpdateMetadata(p, conv_id, [project |-> project])
    \/ reply = Absent /\ Migrate
    \/ \E conv_id \in DOMAIN files : reply = Absent /\ IndexConversation(conv_id)
    \/ \E project \in SearchProjects : Search(project)
    \/ \E project \in SearchProjects : EmSearch(project)

SpecDenorm == Init /\ [][NextDenorm]_vars

(***************************************************************************)
(* SpecInterleave: two processes run add_conversation for the same         *)
(* conversation one Weaviate request at a time; neither dies.              *)
(***************************************************************************)
InterleaveMessages ==
    {<<UserMessage("q"), AssistantMessage("ok")>>,
     <<UserMessage("q"), AssistantMessage("ok"),
       UserMessage("r"), AssistantMessage("ok")>>}

InterleaveConvs ==
    {[id |-> "c1", date |-> "2024-01-01T10:00:00", title |-> "t1",
      messages |-> m, metadata |-> Metadata("P", <<"a">>, <<>>)] :
        m \in InterleaveMessages}

InterleaveCalls == MigrateCalls(InterleaveConvs, ReindexVectors)

NextInterleave ==
    \E p \in Procs :
        \/ \E call \in InterleaveCalls : Begin(p, call)
        \/ CheckExisting(p)
        \/ DeleteChunksStep(p)
        \/ DeleteAssistantStep(p)
        \/ DeleteConvStep(p)
        \/ InsertConvStep(p)
        \/ InsertChunkStep(p)
        \/ InsertAssistantStep(p)
        \/ InsertDecisionStep(p)
        \/ Return(p)

SpecInterleave == Init /\ [][NextInterleave]_vars

(***************************************************************************)
(* SpecComplete: a source conversation with as many chunks as one          *)
(* near_vector request returns, and a bystander with one chunk.            *)
(***************************************************************************)
\* n turn pairs with short answers (no AssistantChunk is derived from them)
RECURSIVE TurnPairs(_)
TurnPairs(n) ==
    IF n = 0 THEN <<>>
    ELSE TurnPairs(n - 1) \o <<UserMessage("q"), AssistantMessage("ok")>>

CompletePairs == {1, 1 + NearExtra}

CompleteConvs ==
    {[id |-> "c1", date |-> "2024-01-01T10:00:00", title |-> "t1",
      messages |-> TurnPairs(n), metadata |-> Metadata("P", <<"a">>, <<>>)] :
        n \in CompletePairs}
    \cup
    {[id |-> "c2", date |-> "2024-01-01T10:00:00", title |-> "t1",
      messages |-> TurnPairs(1), metadata |-> Metadata("P", <<"a">>, <<>>)]}

CompleteCalls == MigrateCalls(CompleteConvs, SimilarVectors)

NextComplete ==
    \/ \E call \in CompleteCalls : AddConversation(call)
    \/ \E conv_id \in {"c1", "c2"}, threshold \in SimilarThresholds,
          top_k \in 1..MaxK :
          FindSimilar(conv_id, threshold, top_k)

SpecComplete == Init /\ [][NextComplete]_vars

(***************************************************************************)
(* Claims about the record store (SpecStore)                               *)
(***************************************************************************)
\* C14: id determinism.  Two add_conversation calls with the same message
\* list return the same id, whatever their titles and the moments of the
\* calls, and two calls whose message lists differ return different ids.
C14_IdDeterminism ==
    \A a, b \in issued : (a.messages = b.messages) <=> (a.id = b.id)

StoredIds == {id \in DOMAIN files : files[id] # Absent}

SummariesOf(id) == {k \in DOMAIN index : index[k].id = id}

\* C15: idempotent creation.  The summary index holds exactly one entry per
\* stored conversation id, and get_all_conversations returns each stored
\* conversation once.
C15_OneSummaryPerConversation ==
    /\ \A id \in StoredIds : Cardinality(SummariesOf(id)) = 1
    /\ LET all == get_all_conversations(files, index) IN
       \A i, j \in DOMAIN all : i # j => all[i].id # all[j].id

\* C16: every conversation admitted to the record store has a non-empty
\* messages list.
C16_MessagesNonEmpty ==
    \A id \in StoredIds : files[id].messages # <<>>

Core(conv) ==
    [id |-> conv.id, date |-> conv.date, title |-> conv.title,
     messages |-> conv.messages]

\* The step is an add_conversation that produced the id of a conversation
\* that was already stored.
ReAdded(id) ==
    /\ Len(index') = Len(index) + 1
    /\ index'[Len(index')].id = id
    /\ SummariesOf(id) # {}

\* C17: once a conversation is stored, no later operation on other
\* conversations, no update_metadata and no sync save changes its id, date,
\* title or messages; only its metadata changes.
C17_CoreImmutable ==
    [][\A id \in StoredIds :
          ~ReAdded(id) => Core(files'[id]) = Core(files[id])]_vars

(***************************************************************************)
(* Claims about concurrent writers (SpecRace)                              *)
(***************************************************************************)
IdsOf(conversations) == {conversations[k].id : k \in DOMAIN conversations}

\* C18: last writer wins on the summary index.  The persisted index equals
\* the in-memory index of the process that wrote it last; a summary entry
\* another process added, and the last writer never loaded, is missing from
\* the persisted index although its record file exists.
C18_LastWriterWins ==
    writer # None =>
        /\ index = mem[writer].conversations
        /\ \A p \in Procs \ {writer} :
              \A id \in IdsOf(mem[p].conversations) \ IdsOf(mem[writer].conversations) :
                  /\ id \notin IdsOf(index)
                  /\ ReadFile(files, id) # Absent

\* Both processes loaded the empty index, both added a conversation, and the
\* first writer's conversation has a record file but no summary entry.
C18_Witness ==
    /\ writer = "p2"
    /\ Loaded("p1")
    /\ mem["p2"].conversations # <<>>
    /\ \E id \in IdsOf(mem["p1"].conversations) :
          /\ id \notin IdsOf(index)
          /\ ReadFile(files, id) # Absent

(***************************************************************************)
(* Claims about indexing and rebuilding (SpecRebuild)                      *)
(***************************************************************************)
ChunkSet(fs, conv_id) ==
    LET chunks == _chunk_conversation(fs[conv_id]) IN
    {[id |-> ChunkId(conv_id, chunks[k]), document |-> chunks[k].text] :
        k \in DOMAIN chunks}

\* The conversations the record store returns: those with a summary entry
\* and a record file.
Listed(fs, ix) ==
    {id \in {ix[k].id : k \in DOMAIN ix} : id \in DOMAIN fs /\ fs[id] # Absent}

Held(coll) ==
    {[id |-> coll[k].id, document |-> coll[k].document] : k \in DOMAIN coll}

IsRebuild(record) == record # Absent /\ record.op = "rebuild_index"

\* C19: full rebuild.  When rebuild_index completes, the collection holds
\* exactly one entry <conv_id>_chunk_<i> for every chunk of every conversation
\* the record store returns, and no other entry, whatever it held before; a
\* second rebuild_index leaves the same set of entries.
C19_FullRebuild ==
    [][(IsRebuild(indexed') /\ indexed' # indexed) =>
          /\ Held(collection')
               = UNION {ChunkSet(files', id) : id \in Listed(files', index')}
          /\ Cardinality({collection'[k].id : k \in DOMAIN collection'})
               = Len(collection')
          /\ (indexed'.runs = 2 => Held(collection') = Held(collection))]_vars

\* A second rebuild in a row has completed on an unchanged store that lists one
\* conversation twice and has a record file without a summary entry.
C19_Witness ==
    /\ IsRebuild(indexed)
    /\ indexed.runs = 2
    /\ indexed.store = <<files, index>>
    /\ collection # <<>>
    /\ \E i, j \in DOMAIN index : i # j /\ index[i].id = index[j].id
    /\ \E id \in DOMAIN files :
          files[id] # Absent /\ id \notin Listed(files, index)

\* C20: index_conversation called with an id that is not in the record store
\* fails with a NotFound error the caller sees, and writes nothing to the
\* vector index.
C20_NotFoundSurfaced ==
    (indexed # Absent /\ indexed.op = "index_conversation" /\ ~indexed.found)
    => indexed.outcome = "NotFound" /\ ~indexed.wrote

(***************************************************************************)
(* Claims about the Chroma index (SpecSync)                                *)
(***************************************************************************)
CurrentChunks(conv_id) ==
    LET chunks == _chunk_conversation(files[conv_id]) IN
    {[id |-> ChunkId(conv_id, chunks[k]), document |-> chunks[k].text] :
        k \in DOMAIN chunks}

IndexedChunks(conv_id) ==
    {[id |-> e.id, document |-> e.document] : e \in EntriesFor(collection, conv_id)}

\* C4: index_conversation replaces what was indexed before.  After
\* _save_conversation has overwritten the record of a conversation that
\* already had entries in the collection and has indexed it again, the
\* collection's entries of the conversation are exactly the chunks of the
\* current record, under the ids <conv_id>_chunk_<chunk_index>, each with the
\* current chunk text.
C4_IndexReplaces ==
    (/\ indexed # Absent
     /\ indexed.saved
     /\ indexed.changed
     /\ indexed.had_entries)
    => IndexedChunks(indexed.conv_id) = CurrentChunks(indexed.conv_id)

(***************************************************************************)
(* Claims about find_similar_across_conversations (SpecSimilar)            *)
(***************************************************************************)
IsSimilarReply ==
    reply # Absent /\ reply.op = "find_similar_across_conversations"

\* The candidates the query meets: every match returned by a nearest-neighbour
\* search of one of the source chunks.
Candidates ==
    LET coll == SimilarCollection(G, reply.conv_id)
        source_chunks == FetchWhere(coll, reply.conv_id)
    IN UNION {ToSet(near_vector(coll, source_chunks[i].vector,
                                reply.top_k + NearExtra)) :
                 i \in DOMAIN source_chunks}

LinkedTargets == {reply.result[i].conv_id : i \in DOMAIN reply.result}

\* C9: the similarity threshold is inclusive.  No returned link has a
\* similarity below the threshold, and a candidate of another conversation
\* whose similarity (1 - distance) is equal to the threshold is not skipped:
\* its conversation is linked, unless the result is already cut at top_k.
C9_ThresholdInclusive ==
    IsSimilarReply =>
        /\ \A i \in DOMAIN reply.result :
              reply.result[i].similarity >= reply.threshold
        /\ \A match \in Candidates :
              (/\ match.properties.conv_id # reply.conv_id
               /\ Similarity(match.distance) = reply.threshold)
              => \/ match.properties.conv_id \in LinkedTargets
                 \/ Len(reply.result) = reply.top_k

\* A link whose similarity is exactly the threshold was returned by a query
\* whose result was not cut at top_k.
C9_Witness ==
    /\ IsSimilarReply
    /\ \E i \in DOMAIN reply.result :
          reply.result[i].similarity = reply.threshold
    /\ Len(reply.result) < reply.top_k

\* C10: the result of find_similar_across_conversations(id, threshold, k) has
\* at most k links, none of them to id itself, at most one per target
\* conversation, each with similarity >= threshold, in non-increasing order
\* of similarity.
C10_SimilarResultShape ==
    IsSimilarReply =>
        /\ Len(reply.result) <= reply.top_k
        /\ \A i \in DOMAIN reply.result :
              /\ reply.result[i].conv_id # reply.conv_id
              /\ reply.result[i].similarity >= reply.threshold
        /\ \A i, j \in DOMAIN reply.result :
              /\ (i # j => reply.result[i].conv_id # reply.result[j].conv_id)
              /\ (i < j => reply.result[i].similarity >= reply.result[j].similarity)

\* Two source chunks both match the same target, a second target matches with
\* a different similarity, the source's own chunks are among the candidates,
\* and the result is cut at top_k.
C10_Witness ==
    /\ IsSimilarReply
    /\ Len(reply.result) = reply.top_k
    /\ reply.top_k >= 1
    /\ \E m \in Candidates : m.properties.conv_id = reply.conv_id
    /\ \E m1, m2 \in Candidates :
          /\ m1.properties.conv_id # reply.conv_id
          /\ m2.properties.conv_id # reply.conv_id
          /\ m1.properties.conv_id # m2.properties.conv_id
          /\ Similarity(m1.distance) >= reply.threshold
          /\ Similarity(m2.distance) >= reply.threshold
          /\ Similarity(m1.distance) # Similarity(m2.distance)
    /\ \E m1, m2 \in Candidates :
          /\ m1 # m2
          /\ m1.properties.conv_id = m2.properties.conv_id
          /\ m1.properties.conv_id # reply.conv_id
          /\ Similarity(m1.distance) >= reply.threshold
          /\ Similarity(m2.distance) >= reply.threshold

SimilarSources ==
    FetchWhere(SimilarCollection(G, reply.conv_id), reply.conv_id)

\* The matches of source chunk s in target t that pass the threshold, nearest
\* first.
QualifyingIn(s, t) ==
    SelectSeq(near_vector(SimilarCollection(G, reply.conv_id),
                          SimilarSources[s].vector, reply.top_k + NearExtra),
              LAMBDA m : /\ m.properties.conv_id = t
                         /\ Similarity(m.distance) >= reply.threshold)

FirstSourceFor(t) ==
    CHOOSE s \in DOMAIN SimilarSources :
        /\ QualifyingIn(s, t) # <<>>
        /\ \A r \in DOMAIN SimilarSources : QualifyingIn(r, t) # <<>> => s <= r

BestSimilarity(t) ==
    CHOOSE x \in {Similarity(Distance(SimilarSources[s].vector, e.vector)) :
                    s \in DOMAIN SimilarSources,
                    e \in ToSet(FetchWhere(SimilarCollection(G, reply.conv_id), t))} :
        \A s \in DOMAIN SimilarSources,
           e \in ToSet(FetchWhere(SimilarCollection(G, reply.conv_id), t)) :
            x >= Similarity(Distance(SimilarSources[s].vector, e.vector))

Snippets(coll, conv_ids) ==
    {Prefix(coll[k].content, 100) :
        k \in {j \in DOMAIN coll : coll[j].conv_id \in conv_ids}}

\* The call read its source chunks from, and sent every nearest-neighbour
\* query to, the collection coll named name.
RanOn(name, coll) ==
    /\ Len(reply.queries) = Len(FetchWhere(coll, reply.conv_id))
    /\ \A q \in DOMAIN reply.queries :
          /\ reply.queries[q].collection = name
          /\ reply.queries[q].near_vector = FetchWhere(coll, reply.conv_id)[q].vector
    /\ \A i \in DOMAIN reply.result :
          /\ reply.result[i].source_snippet \in Snippets(coll, {reply.conv_id})
          /\ reply.result[i].match_snippet
               \in Snippets(coll, ConvIds \ {reply.conv_id})

HasEntries(coll, conv_id) == \E k \in DOMAIN coll : coll[k].conv_id = conv_id

\* C12: collection choice.  When the source conversation has an AssistantChunk
\* entry, the source chunks and the nearest-neighbour queries both use
\* AssistantChunk; when it has none they both use MessageChunk; when it has
\* entries in neither, the result is empty and no query is issued.
C12_CollectionChoice ==
    IsSimilarReply =>
        IF HasEntries(AssistantChunk, reply.conv_id)
        THEN RanOn("AssistantChunk", AssistantChunk)
        ELSE IF HasEntries(MessageChunk, reply.conv_id)
        THEN RanOn("MessageChunk", MessageChunk)
        ELSE reply.result = <<>> /\ reply.queries = <<>>

\* A source without assistant chunks was linked to a target through the
\* MessageChunk collection while the target has assistant chunks.
C12_Witness ==
    /\ IsSimilarReply
    /\ ~HasEntries(AssistantChunk, reply.conv_id)
    /\ HasEntries(MessageChunk, reply.conv_id)
    /\ reply.result # <<>>
    /\ HasEntries(AssistantChunk, reply.result[1].conv_id)
    /\ reply.queries # <<>>

(***************************************************************************)
(* Claims about build_conversation_graph (SpecGraph)                       *)
(***************************************************************************)
IsGraphReply == reply # Absent /\ reply.op = "build_conversation_graph"

Enumerated == {Conversation[k].conv_id : k \in DOMAIN Conversation}

SimilarTo(conv_id) ==
    find_similar_across_conversations(G, conv_id, reply.threshold, GraphTopK)

\* C13: build_conversation_graph(threshold) returns a mapping whose keys are
\* exactly the enumerated conversations with a non-empty
\* find_similar_across_conversations(id, threshold, top_k=5), each mapped to
\* that result: no key maps to an empty list, every key is in the Conversation
\* collection and no list links a conversation to itself.
C13_GraphKeys ==
    IsGraphReply =>
        /\ DOMAIN reply.graph = {c \in Enumerated : SimilarTo(c) # <<>>}
        /\ \A c \in DOMAIN reply.graph :
              /\ reply.graph[c] = SimilarTo(c)
              /\ reply.graph[c] # <<>>
              /\ c \in Enumerated
              /\ \A i \in DOMAIN reply.graph[c] : reply.graph[c][i].conv_id # c

\* Of three indexed conversations two are keys, linked to each other, and the
\* third, with no similar conversation, is left out.
C13_Witness ==
    /\ IsGraphReply
    /\ Cardinality(Enumerated) = 3
    /\ Cardinality(DOMAIN reply.graph) = 2
    /\ \E c \in Enumerated : c \notin DOMAIN reply.graph

(***************************************************************************)
(* Claims about bulk indexing (SpecBulk)                                   *)
(***************************************************************************)
\* No chunk is derivable from the conversation: zero or one message.
ChunkLess(conv) == Len(conv.messages) <= 1

StoredConversations == ToSet(get_all_conversations(files, index))

MigrateStep ==
    /\ calls' # Absent
    /\ calls'.op = "migrate"
    /\ (calls' # calls \/ G' # G)

IndexStep == indexed' # Absent /\ indexed' # indexed

RecordsWith(fs, project, topic) ==
    {id \in DOMAIN fs :
        /\ fs[id] # Absent
        /\ project # None => fs[id].metadata.project = project
        /\ topic # None => topic \in ToSet(fs[id].metadata.topics)}

\* C22: the summary index agrees with the records.  list_conversations(
\* project=P) returns exactly the conversations whose stored record has
\* project P, and list_conversations(topic=T) exactly those whose stored
\* record's topics contain T.
C22_SummaryAgrees ==
    [][(reply' # reply /\ reply'.op = "list_conversations") =>
          IdsOf(reply'.result) = RecordsWith(files', reply'.project, reply'.topic)]_vars

(***************************************************************************)
(* Claims about chunk indices in the graph store (Spec)                    *)
(***************************************************************************)
\* The MessageChunk entry m was built from the turn pair whose assistant
\* message is the content of the AssistantChunk entry a.
SameTurnPair(m, a, messages) ==
    \E k \in DOMAIN messages : m.content = ChunkText(messages[k].content, a.content)

\* C23: every AssistantChunk entry written by add_conversation carries the
\* chunk_index of the MessageChunk entry of the same conversation built from
\* the same turn pair, also when an earlier assistant message was too short
\* to produce an assistant chunk.
C23_AssistantIndexMatches ==
    calls # Absent =>
        LET conv == calls.last.conv IN
        \A a \in ToSet(FetchWhere(AssistantChunk, conv.id)) :
            \E m \in ToSet(FetchWhere(MessageChunk, conv.id)) :
                /\ m.chunk_index = a.chunk_index
                /\ SameTurnPair(m, a, conv.messages)

(***************************************************************************)
(* Claims about imported conversations (SpecImport)                        *)
(***************************************************************************)
\* C24: chunk_conversation emits a full chunk for positions (i, i+1) only
\* when messages[i] has role user and messages[i+1] has role assistant, so in
\* every emitted chunk the text after "User:" is a user message's content and
\* the text after "Assistant:" an assistant message's, for the message lists
\* the sync importers produce.
C24_PairsUserAssistant ==
    (reply # Absent /\ reply.op = "import" /\ reply.conversation # Absent) =>
        LET messages == reply.conversation.messages IN
        \A k \in DOMAIN reply.full :
            LET i == 2 * reply.full[k].metadata.chunk_index IN
            /\ messages[i + 1].role = "user"
            /\ messages[i + 2].role = "assistant"
            /\ reply.full[k].text
                 = ChunkText(messages[i + 1].content, messages[i + 2].content)

(***************************************************************************)
(* Claims about the scan bound of find_related_conversations (SpecScan)    *)
(***************************************************************************)
\* link is ranked in result, or result is full of links that rank at least
\* as high.
RankedOrBeaten(link, result, n_results) ==
    \/ \E k \in DOMAIN result : result[k] = link
    \/ /\ Len(result) = n_results
       /\ \A k \in DOMAIN result : ~KeyGreater(link, result[k])

\* C25: when the Conversation collection holds at most 500 conversations,
\* find_related_conversations considers every other conversation: a
\* qualifying conversation is never left out of the ranking because of its
\* position in the collection.
C25_ScansWholeCollection ==
    (/\ reply # Absent
     /\ reply.op = "find_related_conversations"
     /\ Len(Conversation) <= 500
     /\ Exists(G, reply.conv_id)) =>
        LET source == FetchWhere(Conversation, reply.conv_id)[1] IN
        \A k \in DOMAIN Conversation :
            LET link == RelatedLink(Conversation[k], ToSet(source.topics),
                                    source.project) IN
            (Conversation[k].conv_id # reply.conv_id /\ Qualifies(link)) =>
                RankedOrBeaten(link, reply.result, reply.n_results)

(***************************************************************************)
(* Claims about denormalized attributes (SpecDenorm)                       *)
(***************************************************************************)
\* The project of the record that is stored now under conv_id.
CurrentProject(conv_id) == ReadFile(files, conv_id).metadata.project

IsSearch == reply # Absent /\ reply.op \in {"GraphStore.search", "EmbeddingManager.search"}

\* C26: every chunk entry of the vector indexes carries the project of its
\* parent conversation's current record, and a search filtered by project P
\* returns only chunks of conversations whose current project is P.
C26_ProjectConsistent ==
    /\ \A k \in DOMAIN MessageChunk :
          ReadFile(files, MessageChunk[k].conv_id) # Absent =>
             MessageChunk[k].project = CurrentProject(MessageChunk[k].conv_id)
    /\ \A k \in DOMAIN collection :
          ReadFile(files, collection[k].metadata.conversation_id) # Absent =>
             collection[k].metadata.project
                = CurrentProject(collection[k].metadata.conversation_id)
    /\ (IsSearch /\ HasFilter(reply.project)) =>
          \A k \in DOMAIN reply.result :
             CurrentProject(reply.result[k].metadata.conversation_id) = reply.project

(***************************************************************************)
(* Claims about concurrent add_conversation calls (SpecInterleave)         *)
(***************************************************************************)
OneConversationPerId ==
    \A j, k \in DOMAIN Conversation :
        Conversation[j].conv_id = Conversation[k].conv_id => j = k

OneChunkPerIndex ==
    \A j, k \in DOMAIN MessageChunk :
        (/\ MessageChunk[j].conv_id = MessageChunk[k].conv_id
         /\ MessageChunk[j].chunk_index = MessageChunk[k].chunk_index) => j = k

\* C27: as long as no add_conversation call has begun while another was
\* running, there is at most one Conversation entry per conv_id and at most
\* one MessageChunk entry per (conv_id, chunk_index); two calls for the same
\* conv_id whose steps interleave can end with duplicates of both.
C27_UniqueUnlessInterleaved ==
    ~overlapped => (OneConversationPerId /\ OneChunkPerIndex)

\* Two interleaved calls have returned and left duplicates in both
\* collections.
C27_Witness ==
    /\ overlapped
    /\ AllIdle
    /\ calls # Absent
    /\ ~OneConversationPerId
    /\ ~OneChunkPerIndex

(***************************************************************************)
(* Claims about _save_conversation (SpecSync)                              *)
(***************************************************************************)
MessageCount(fs, conv_id) == Len(get_conversation(fs, conv_id).messages)
Stored(fs, conv_id) == get_conversation(fs, conv_id) # Absent

\* The step is a _save_conversation call (RebuildIndex leaves its own record
\* in indexed).
SaveStep == indexed' # Absent /\ indexed'.op = "_save_conversation"

\* C28: _save_conversation for an id that is stored with at least as many
\* messages returns False and leaves the record file, the summary index and
\* the Chroma collection unchanged; it returns True exactly when the id was
\* absent or the incoming list is strictly longer; the stored message count of
\* a conversation never decreases.
C28_SavesOnlyGrown ==
    [][/\ SaveStep =>
            LET conv_id == indexed'.conv_id
                grown == \/ ~Stored(files, conv_id)
                         \/ indexed'.incoming > MessageCount(files, conv_id)
            IN /\ indexed'.saved <=> grown
               /\ ~grown => /\ files' = files
                            /\ index' = index
                            /\ collection' = collection
               /\ grown => MessageCount(files', conv_id) = indexed'.incoming
       /\ \A conv_id \in SyncIds :
            Stored(files, conv_id) =>
               /\ Stored(files', conv_id)
               /\ MessageCount(files', conv_id) >= MessageCount(files, conv_id)
      ]_vars

\* A conversation that grew to four messages has been offered again with no
\* more messages, and the call returned False.
C28_Witness ==
    /\ indexed # Absent
    /\ indexed.op = "_save_conversation"
    /\ ~indexed.saved
    /\ MessageCount(files, indexed.conv_id) = 4
    /\ indexed.incoming <= 4
    /\ EntriesFor(collection, indexed.conv_id) # {}

(***************************************************************************)
(* Claims about chunk entries and their Conversation entry (SpecCrash)     *)
(***************************************************************************)
\* C29: in every state of the graph store, between the requests of
\* add_conversation and after a crash behind any of them, a conv_id that has
\* an entry in MessageChunk or AssistantChunk has an entry in Conversation.
C29_ChunksHaveConversation ==
    /\ \A k \in DOMAIN MessageChunk : Exists(G, MessageChunk[k].conv_id)
    /\ \A k \in DOMAIN AssistantChunk : Exists(G, AssistantChunk[k].conv_id)

\* A call for c1 died between its delete requests: the MessageChunk entries
\* of c1 are gone, its AssistantChunk and Conversation entries are still
\* there, and no call is running.
C29_Witness ==
    /\ AllIdle
    /\ interrupted["c1"] = "deleting"
    /\ FetchWhere(MessageChunk, "c1") = <<>>
    /\ FetchWhere(AssistantChunk, "c1") # <<>>
    /\ Exists(G, "c1")

(***************************************************************************)
(* Claims about the completeness of the similarity query (SpecComplete)    *)
(***************************************************************************)
\* Some chunk of another conversation, in the collection the query ran on,
\* is at least threshold-similar to one of the source's chunks.
HasSimilarElsewhere(coll, conv_id, threshold) ==
    \E j, k \in DOMAIN coll :
        /\ coll[j].conv_id = conv_id
        /\ coll[k].conv_id # conv_id
        /\ Similarity(Distance(coll[j].vector, coll[k].vector)) >= threshold

\* C30: for top_k >= 1, when another conversation has a chunk whose
\* similarity to one of the source's chunks is at least threshold,
\* find_similar_across_conversations returns a non-empty result, however many
\* chunks the source has.
C30_Complete ==
    (/\ reply # Absent
     /\ reply.op = "find_similar_across_conversations"
     /\ reply.top_k >= 1
     /\ HasSimilarElsewhere(SimilarCollection(G, reply.conv_id), reply.conv_id,
                            reply.threshold)) =>
        reply.result # <<>>

(***************************************************************************)
(* Claims about re-indexing (Spec)                                         *)
(***************************************************************************)
\* The entries of a sequence with their multiplicities.
BagOfSeq(s) ==
    [x \in {s[k] : k \in DOMAIN s} |-> Cardinality({k \in DOMAIN s : s[k] = x})]

ConvIdsOf(coll) == [k \in DOMAIN coll |-> coll[k].conv_id]

NoDuplicates(s) == \A j, k \in DOMAIN s : s[j] = s[k] => j = k

\* C1: a second add_conversation with the same conversation, chunks and
\* embeddings, right after the first, leaves the Conversation, MessageChunk
\* and AssistantChunk collections with the same entries (by conv_id,
\* chunk_index, content) as the first left: none duplicated, none added.
C1_ReindexIdempotent ==
    [][(calls' # Absent /\ calls'.repeated) =>
          /\ BagOfSeq(ConvIdsOf(Conversation')) = BagOfSeq(ConvIdsOf(Conversation))
          /\ BagOfSeq(Keys(MessageChunk')) = BagOfSeq(Keys(MessageChunk))
          /\ BagOfSeq(Keys(AssistantChunk')) = BagOfSeq(Keys(AssistantChunk))
          /\ NoDuplicates(ConvIdsOf(Conversation'))
          /\ NoDuplicates(Keys(MessageChunk'))
          /\ NoDuplicates(Keys(AssistantChunk'))]_vars

\* The same call made twice in a row, of two chunks and an assistant chunk.
C1_Witness ==
    /\ calls # Absent
    /\ calls.repeated
    /\ Len(calls.last.chunks) = 2
    /\ Len(calls.last.assistant_chunks) >= 1
    /\ Len(Conversation) = 2

\* C2: after add_conversation for a conversation id that was already indexed
\* with a different chunk list, the MessageChunk and AssistantChunk entries
\* of that id are exactly the chunks passed in this call.
C2_ReindexReplaces ==
    (calls # Absent /\ calls.indexed_before /\ calls.changed) =>
        LET call == calls.last IN
        /\ BagOfSeq(Keys(FetchWhere(MessageChunk, call.conv.id)))
             = BagOfSeq(PassedKeys(call.conv, call.chunks))
        /\ BagOfSeq(Keys(FetchWhere(AssistantChunk, call.conv.id)))
             = BagOfSeq(PassedKeys(call.conv, call.assistant_chunks))

\* A conversation indexed with two chunks is re-indexed with one.
C2_Witness ==
    /\ calls # Absent
    /\ calls.indexed_before
    /\ calls.changed
    /\ calls.chunks_before = 2
    /\ Len(calls.last.chunks) = 1
    /\ Len(calls.last.assistant_chunks) = 0

\* C3: after any number of add_conversation calls for a conversation, the
\* Decision collection holds exactly one entry per decision of the metadata
\* passed in the latest call.
C3_DecisionsReplaced ==
    calls # Absent =>
        LET conv == calls.last.conv IN
        BagOfSeq(FetchWhere(Decision, conv.id))
          = BagOfSeq([k \in DOMAIN conv.metadata.decisions |->
                        DecisionEntry(conv, conv.metadata.decisions[k])])

(***************************************************************************)
(* Claims about interrupted calls (SpecCrash)                              *)
(***************************************************************************)
EntriesOf(g, conv_id) ==
    [Conversation |-> FetchWhere(g.Conversation, conv_id),
     MessageChunk |-> FetchWhere(g.MessageChunk, conv_id),
     AssistantChunk |-> FetchWhere(g.AssistantChunk, conv_id)]

\* No call for conv_id is under way and none has died since the last one
\* completed.
Settled(conv_id) ==
    /\ interrupted[conv_id] = "no"
    /\ \A p \in Procs : At(p, "idle") \/ proc[p].call.conv.id # conv_id

\* C5: when an add_conversation for a conversation has died after any of its
\* delete or insert requests, a later add_conversation for it that completes
\* leaves the Conversation, MessageChunk and AssistantChunk collections with
\* exactly the entries of that conversation that one uninterrupted call on
\* an empty store leaves.
C5_RetryRecovers ==
    (calls # Absent /\ calls.recovers # "no" /\ Settled(calls.last.conv.id)) =>
        EntriesOf(G, calls.last.conv.id)
          = EntriesOf(add_conversation(EmptyGraph, calls.last), calls.last.conv.id)

\* A call of two chunks completes after the previous call for the same
\* conversation died among its inserts.
C5_Witness ==
    /\ calls # Absent
    /\ calls.recovers = "inserting"
    /\ Settled(calls.last.conv.id)
    /\ Len(calls.last.chunks) = 2
    /\ Len(MessageChunk) >= 3

(***************************************************************************)
(* Claims about find_related_conversations (SpecRelated)                   *)
(***************************************************************************)
IsRelatedReply == reply # Absent /\ reply.op = "find_related_conversations"

\* The scanned conversations, and what the claim says of a scanned object e
\* against the source object src.
Scanned == Prefix(Conversation, RelatedScanLimit)
TopicOverlap(src, e) == Cardinality(ToSet(src.topics) \cap ToSet(e.topics))
SameProject(src, e) == e.project = src.project
\* (o1, s1) ranks strictly above (o2, s2): overlap first, same project next.
RanksAbove(o1, s1, o2, s2) == o1 > o2 \/ (o1 = o2 /\ s1 /\ ~s2)

\* C8: find_related_conversations(id, k) returns the first k of the scanned
\* conversations other than id that have topic overlap > 0 or the source's
\* project, in descending order of (topic_overlap, same_project); it never
\* returns the source; it returns nothing when id is not indexed.
C8_RelatedRanking ==
    IsRelatedReply =>
        LET id == reply.conv_id
            res == reply.result
            found == {k \in DOMAIN Conversation : Conversation[k].conv_id = id}
        IN
        IF found = {} THEN res = <<>>
        ELSE
            LET src == Conversation[CHOOSE k \in found : \A j \in found : k <= j]
                qualifying ==
                    {k \in DOMAIN Scanned :
                        /\ Scanned[k].conv_id # id
                        /\ \/ TopicOverlap(src, Scanned[k]) > 0
                           \/ SameProject(src, Scanned[k])}
                returned == {k \in qualifying :
                                \E i \in DOMAIN res : res[i].conv_id = Scanned[k].conv_id}
            IN
            /\ Len(res) = Min(reply.n_results, Cardinality(qualifying))
            /\ \A i \in DOMAIN res :
                  /\ res[i].conv_id # id
                  /\ \E k \in qualifying :
                        /\ Scanned[k].conv_id = res[i].conv_id
                        /\ res[i].topic_overlap = TopicOverlap(src, Scanned[k])
                        /\ res[i].same_project = SameProject(src, Scanned[k])
                        /\ res[i].project = Scanned[k].project
            /\ \A i, j \in DOMAIN res :
                  i < j => ~RanksAbove(res[j].topic_overlap, res[j].same_project,
                                       res[i].topic_overlap, res[i].same_project)
            /\ \A k \in qualifying \ returned : \A i \in DOMAIN res :
                  ~RanksAbove(TopicOverlap(src, Scanned[k]), SameProject(src, Scanned[k]),
                              res[i].topic_overlap, res[i].same_project)

\* Two targets with the same topic overlap, the one of another project
\* stored first: asked for one result, the same-project target is returned.
C8_Witness ==
    /\ IsRelatedReply
    /\ reply.n_results = 1
    /\ Len(Conversation) = 3
    /\ Conversation[3].conv_id # reply.conv_id
    /\ Len(reply.result) = 1
    /\ reply.result[1].conv_id = Conversation[3].conv_id
    /\ reply.result[1].topic_overlap = 1
    /\ reply.result[1].same_project
    /\ \E k \in 1..2 :
          /\ Conversation[k].conv_id # reply.conv_id
          /\ Conversation[k].topics = Conversation[3].topics
          /\ Conversation[k].project # Conversation[3].project

(***************************************************************************)
(* Claims about the chunkers (SpecChunk)                                   *)
(***************************************************************************)
IsChunked == reply # Absent /\ reply.op = "chunk_conversation"

\* The text the claim gives for the pair j of a message list.
PairText(messages, j) ==
    "User: " \o messages[2 * j + 1].content \o "\n\nAssistant: "
             \o messages[2 * j + 2].content

PairsInOrder(messages, chunks) ==
    /\ Len(chunks) = Len(messages) \div 2
    /\ \A j \in 0..(Len(messages) \div 2) - 1 :
          /\ chunks[j + 1].metadata.chunk_index = j
          /\ chunks[j + 1].text = PairText(messages, j)

C7_AssistantChunkIffLong ==
    IsChunked =>
        LET messages == reply.conversation.messages IN
        /\ Len(reply.assistant) <= Len(reply.full)
        /\ \A j \in 0..(Len(messages) \div 2) - 1 :
              /\ \E k \in 1..Len(reply.full) :
                    reply.full[k].metadata.chunk_index = j
              /\ (Len(messages[2 * j + 2].content) > 50) <=>
                    \E k \in 1..Len(reply.assistant) :
                        /\ reply.assistant[k].metadata.chunk_index = j
                        /\ reply.assistant[k].text = messages[2 * j + 2].content
        /\ \A k \in 1..Len(reply.assistant) :
              reply.assistant[k].metadata.chunk_index
                  \in 0..(Len(messages) \div 2) - 1

\* Two pairs, the first assistant message of exactly 50 characters and the
\* second of 51: two full chunks, one assistant chunk.
C7_Witness ==
    /\ IsChunked
    /\ Len(reply.conversation.messages) = 4
    /\ Len(reply.conversation.messages[2].content) = 50
    /\ Len(reply.conversation.messages[4].content) = 51
    /\ Len(reply.full) = 2
    /\ Len(reply.assistant) = 1

====
